---- MODULE Spec2Model ----
(***************************************************************************)
(* Broker message plane of DimQ: per-session inflight/queued bookkeeping   *)
(* (src/src/database.c) and the session takeover done by the CONNECT       *)
(* handler (src/src/handle_connect.c).                                     *)
(*                                                                         *)
(* A C function that mutates the broker becomes an operator from a "world" *)
(* record w to the world after the call:                                   *)
(*   w.ctx      the contexts (struct dimq), indexed by context slot        *)
(*   w.store    the message store pool (struct dimq_msg_store)             *)
(*   w.by_id    db.contexts_by_id, the set of registered context slots     *)
(*   w.out      the packets handed to the send primitives during the call  *)
(*   w.promoted the entries moved from queued to inflight during the call  *)
(*   w.sends    a record of every per-entry send made during the call      *)
(*   w.freed    the stores removed from the pool during the call           *)
(*   w.rc       the return code of the call                                *)
(* Timestamps, the retain flag and the MQTT 5 properties of a client       *)
(* message are not modelled: no decision in the modelled code reads them.  *)
(***************************************************************************)
EXTENDS Integers, Sequences, FiniteSets, TLC

(***************************************************************************)
(* Bounds of the model.                                                    *)
(***************************************************************************)
NCtx == 2
NStores == 2
MaxMid == 2
MaxBacklog == 2
MaxTime == 2
MaxInserted == 3
MaxSubLen == 4
MaxTopicLen == 3

Contexts == 1..NCtx
Stores == 1..NStores
NoStore == 0
NoId == "noid"
NoTopic == "notopic"

(***************************************************************************)
(* Return codes.                                                           *)
(***************************************************************************)
\* The return codes of the library (enum dimq_err_t).
dimq_ERR ==
  [SUCCESS |-> "success", PROTOCOL |-> "protocol", NOT_FOUND |-> "not_found",
   OVERSIZE_PACKET |-> "oversize_packet", NO_SUBSCRIBERS |-> "no_subscribers",
   ACL_DENIED |-> "acl_denied", NOT_SUPPORTED |-> "not_supported", AUTH |-> "auth",
   AUTH_CONTINUE |-> "auth_continue", INVAL |-> "inval", UNKNOWN |-> "unknown"]
RC_DROPPED == "rc2"
RC_INBOUND_LOWQOS == "rc1"

dimq_md_in == "in"
dimq_md_out == "out"

\* The states of a client message (enum dimq_msg_state).
dimq_ms ==
  [invalid |-> "invalid", publish_qos0 |-> "publish_qos0", publish_qos1 |-> "publish_qos1",
   wait_for_puback |-> "wait_for_puback", publish_qos2 |-> "publish_qos2",
   wait_for_pubrec |-> "wait_for_pubrec", resend_pubrel |-> "resend_pubrel",
   wait_for_pubrel |-> "wait_for_pubrel", wait_for_pubcomp |-> "wait_for_pubcomp",
   send_pubrec |-> "send_pubrec", queued |-> "queued"]

\* The states of a client session (enum dimq_client_state).
dimq_cs ==
  [new |-> "new", authenticating |-> "authenticating", active |-> "active",
   duplicate |-> "duplicate", disconnected |-> "disconnected"]

\* The protocol versions of a session (enum dimq__protocol).
dimq_p == [mqtt31 |-> "mqtt31", mqtt311 |-> "mqtt311", mqtt5 |-> "mqtt5"]

\* The protocol names and version bytes a CONNECT may carry.
PROTOCOL ==
  [NAME_v31 |-> "MQIsdp", NAME |-> "MQTT", VERSION_v31 |-> 3, VERSION_v311 |-> 4,
   VERSION_v5 |-> 5]

\* CONNACK return codes of MQTT 3.1 and 3.1.1, and the MQTT 5 reason codes.
CONNACK ==
  [ACCEPTED |-> "accepted", REFUSED_PROTOCOL_VERSION |-> "refused_protocol_version",
   REFUSED_IDENTIFIER_REJECTED |-> "refused_identifier_rejected",
   REFUSED_NOT_AUTHORIZED |-> "refused_not_authorized"]
MQTT_RC ==
  [RETAIN_NOT_SUPPORTED |-> "retain_not_supported", QOS_NOT_SUPPORTED |-> "qos_not_supported",
   NOT_AUTHORIZED |-> "not_authorized", BAD_AUTHENTICATION_METHOD |-> "bad_authentication_method"]

dimq_ACL_READ == "read"
dimq_ACL_WRITE == "write"

\* session_expiry_interval of a v3 session that never expires (UINT32_MAX in the
\* source; the code only tests it against zero).
SESSION_NEVER_EXPIRES == 2147483647

\* The number of levels a topic may have.
TOPIC_HIERARCHY_LIMIT == 200

(***************************************************************************)
(* Configurations the broker is started with (db.config).  The fields are  *)
(* the options read by the admission functions and by message_insert.      *)
(***************************************************************************)
ConfigFlow ==
  [max_inflight_messages |-> 2, max_inflight_bytes |-> 2,
   max_queued_messages |-> 0, max_queued_bytes |-> 0,
   queue_qos0_messages |-> FALSE, allow_duplicate_messages |-> FALSE,
   max_keepalive |-> 0, retain_available |-> TRUE]

ConfigLimits ==
  [max_inflight_messages |-> 1, max_inflight_bytes |-> 2,
   max_queued_messages |-> 1, max_queued_bytes |-> 0,
   queue_qos0_messages |-> TRUE, allow_duplicate_messages |-> FALSE,
   max_keepalive |-> 0, retain_available |-> TRUE]

\* The limits above with a keepalive cap and without retained messages.
ConfigConnect ==
  [ConfigLimits EXCEPT !.max_keepalive = 60, !.retain_available = FALSE]

\* An inflight window of two without byte or queue limits.
ConfigOrder ==
  [max_inflight_messages |-> 2, max_inflight_bytes |-> 0,
   max_queued_messages |-> 0, max_queued_bytes |-> 0,
   queue_qos0_messages |-> FALSE, allow_duplicate_messages |-> FALSE,
   max_keepalive |-> 0, retain_available |-> TRUE]

(***************************************************************************)
(* The messages published in the model: what db__message_store is given.   *)
(* The second one carries a message expiry interval and a topic that the   *)
(* ACL denies to user u2.                                                  *)
(***************************************************************************)
StoreKinds ==
  << [payloadlen |-> 1, qos |-> 2, retain |-> FALSE, expiry_interval |-> 0, topic |-> "t1"],
     [payloadlen |-> 2, qos |-> 1, retain |-> FALSE, expiry_interval |-> 1, topic |-> "t2"],
     [payloadlen |-> 1, qos |-> 2, retain |-> FALSE, expiry_interval |-> 0, topic |-> "t2"] >>

StoreKind(s) == StoreKinds[((s - 1) % Len(StoreKinds)) + 1]

(***************************************************************************)
(* Sequence helpers standing for the utlist macros.                        *)
(***************************************************************************)
DL_DELETE(list, i) == SubSeq(list, 1, i - 1) \o SubSeq(list, i + 1, Len(list))
DL_APPEND(list, e) == Append(list, e)

RECURSIVE SumPayload(_, _)
SumPayload(list, st) ==
  IF list = <<>> THEN 0
  ELSE (IF Head(list).store = NoStore THEN 0 ELSE st[Head(list).store].payloadlen)
       + SumPayload(Tail(list), st)

SelectQos12(list) == SelectSeq(list, LAMBDA m : m.qos > 0)

RECURSIVE CountRefs(_, _)
CountRefs(list, s) ==
  IF list = <<>> THEN 0
  ELSE (IF Head(list).store = s THEN 1 ELSE 0) + CountRefs(Tail(list), s)

Min(a, b) == IF a < b THEN a ELSE b

VARIABLES config, ctx, store, by_id, now, last

vars == <<config, ctx, store, by_id, now, last>>

(***************************************************************************)
(* Construction.                                                           *)
(***************************************************************************)
InitMsgData ==
  [inflight |-> <<>>, queued |-> <<>>,
   msg_count |-> 0, msg_bytes |-> 0, msg_count12 |-> 0, msg_bytes12 |-> 0,
   inflight_maximum |-> config.max_inflight_messages,
   inflight_quota |-> config.max_inflight_messages]

ZeroMsgData ==
  [inflight |-> <<>>, queued |-> <<>>,
   msg_count |-> 0, msg_bytes |-> 0, msg_count12 |-> 0, msg_bytes12 |-> 0,
   inflight_maximum |-> 0, inflight_quota |-> 0]

context__init ==
  [allocated |-> TRUE, id |-> NoId, sock |-> TRUE, state |-> dimq_cs.new,
   protocol |-> dimq_p.mqtt311, clean_start |-> TRUE, session_expiry_interval |-> 0,
   max_qos |-> 2, is_dropping |-> FALSE, last_mid |-> 0, username |-> "u1",
   will |-> FALSE, maximum_packet_size |-> 0, out_packet_count |-> 0, keepalive |-> 0,
   msgs_in |-> InitMsgData, msgs_out |-> InitMsgData]

FreeContext == [context__init EXCEPT !.allocated = FALSE, !.sock = FALSE,
                                     !.state = dimq_cs.disconnected,
                                     !.msgs_in = ZeroMsgData, !.msgs_out = ZeroMsgData]

FreeStore ==
  [live |-> FALSE, ref_count |-> 0, dest_ids |-> <<>>, payloadlen |-> 0, qos |-> 0,
   retain |-> FALSE, message_expiry_time |-> 0, topic |-> NoTopic]

World == [ctx |-> ctx, store |-> store, by_id |-> by_id,
          out |-> <<>>, promoted |-> <<>>, sends |-> <<>>, freed |-> {},
          rc |-> dimq_ERR.SUCCESS]

MsgData(w, c, dir) == IF dir = dimq_md_out THEN w.ctx[c].msgs_out ELSE w.ctx[c].msgs_in

SetMsgData(w, c, dir, md) ==
  IF dir = dimq_md_out THEN [w EXCEPT !.ctx[c].msgs_out = md]
  ELSE [w EXCEPT !.ctx[c].msgs_in = md]

SetRc(w, rc) == [w EXCEPT !.rc = rc]

(***************************************************************************)
(* Admission.                                                              *)
(***************************************************************************)
\* An admission for QoS 1 and 2 that asks for credit although the window is
\* unlimited.
db__ready_for_flight_needs_credit(w, c, dir, qos) ==
  LET msgs == MsgData(w, c, dir)
  IN IF msgs.inflight_maximum = 0 /\ config.max_inflight_bytes = 0 THEN TRUE
     ELSE IF qos = 0
     THEN config.max_queued_messages = 0
          \/ (IF dir = dimq_md_out THEN w.ctx[c].out_packet_count
              ELSE msgs.msg_count - msgs.inflight_maximum) < config.max_queued_messages
     ELSE /\ config.max_inflight_bytes = 0 \/ msgs.msg_bytes12 < config.max_inflight_bytes
          /\ msgs.inflight_quota > 0

db__ready_for_flight(w, c, dir, qos) ==
  LET msgs == MsgData(w, c, dir)
      cfg == config
  IN IF msgs.inflight_maximum = 0 /\ cfg.max_inflight_bytes = 0 THEN TRUE
     ELSE IF qos = 0 THEN
       IF cfg.max_queued_messages = 0 /\ cfg.max_inflight_bytes = 0 THEN TRUE
       ELSE LET valid_bytes == (msgs.msg_bytes - cfg.max_inflight_bytes) < cfg.max_queued_bytes
                valid_count == IF dir = dimq_md_out
                               THEN w.ctx[c].out_packet_count < cfg.max_queued_messages
                               ELSE msgs.msg_count - msgs.inflight_maximum < cfg.max_queued_messages
            IN IF cfg.max_queued_messages = 0 THEN valid_bytes
               ELSE IF cfg.max_queued_bytes = 0 THEN valid_count
               ELSE valid_bytes /\ valid_count
     ELSE LET valid_bytes == msgs.msg_bytes12 < cfg.max_inflight_bytes
              valid_count == msgs.inflight_quota > 0
          IN IF msgs.inflight_maximum = 0 THEN valid_bytes
             ELSE IF cfg.max_inflight_bytes = 0 THEN valid_count
             ELSE valid_bytes /\ valid_count

db__ready_for_queue(w, c, qos, dir) ==
  LET msg_data == MsgData(w, c, dir)
      cfg == config
  IN IF cfg.max_queued_messages = 0 /\ cfg.max_queued_bytes = 0 THEN TRUE
     ELSE IF qos = 0 /\ cfg.queue_qos0_messages = FALSE THEN FALSE
     ELSE LET source_bytes == msg_data.msg_bytes12
              source_count == msg_data.msg_count12
              adjust_bytes == IF w.ctx[c].sock = FALSE THEN 0 ELSE cfg.max_inflight_bytes
              adjust_count == IF w.ctx[c].sock = FALSE THEN 0 ELSE msg_data.inflight_maximum
              valid_bytes == (source_bytes - adjust_bytes) < cfg.max_queued_bytes
              valid_count == source_count - adjust_count < cfg.max_queued_messages
          IN IF cfg.max_queued_bytes = 0 THEN valid_count
             ELSE IF cfg.max_queued_messages = 0 THEN valid_bytes
             ELSE valid_bytes /\ valid_count

(***************************************************************************)
(* Message store.                                                          *)
(***************************************************************************)
db__msg_store_remove(w, s) ==
  [w EXCEPT !.store[s] = FreeStore, !.freed = @ \cup {s}]

db__msg_store_ref_inc(w, s) == [w EXCEPT !.store[s].ref_count = @ + 1]

db__msg_store_ref_dec_early(w, s) ==
  LET w1 == [w EXCEPT !.store[s].ref_count = @ - 1]
  IN IF w1.store[s].ref_count <= 1 THEN db__msg_store_remove(w1, s) ELSE w1

db__msg_store_ref_dec(w, s) ==
  LET w1 == [w EXCEPT !.store[s].ref_count = @ - 1]
  IN IF w1.store[s].ref_count = 0 THEN db__msg_store_remove(w1, s) ELSE w1

RECURSIVE CompactFrom(_, _)
CompactFrom(w, s) ==
  IF s > NStores THEN w
  ELSE CompactFrom(IF w.store[s].live /\ w.store[s].ref_count < 1
                   THEN db__msg_store_remove(w, s) ELSE w, s + 1)

db__msg_store_compact(w) == CompactFrom(w, 1)

db__message_store(w, s) ==
  LET k == StoreKind(s)
  IN [w EXCEPT !.store[s] =
        [live |-> TRUE, ref_count |-> 0, dest_ids |-> <<>>,
         payloadlen |-> k.payloadlen, qos |-> k.qos, retain |-> k.retain,
         message_expiry_time |-> IF k.expiry_interval > 0 THEN now + k.expiry_interval ELSE 0,
         topic |-> k.topic]]

(***************************************************************************)
(* Receive-quota helpers of the library (util__*_send_quota,               *)
(* util__decrement_receive_quota): credit counters that saturate at zero   *)
(* and at inflight_maximum.                                                *)
(***************************************************************************)
util__decrement_send_quota(w, c) ==
  IF w.ctx[c].msgs_out.inflight_quota > 0
  THEN [w EXCEPT !.ctx[c].msgs_out.inflight_quota = @ - 1] ELSE w

util__increment_send_quota(w, c) ==
  IF w.ctx[c].msgs_out.inflight_quota < w.ctx[c].msgs_out.inflight_maximum
  THEN [w EXCEPT !.ctx[c].msgs_out.inflight_quota = @ + 1] ELSE w

util__decrement_receive_quota(w, c) ==
  IF w.ctx[c].msgs_in.inflight_quota > 0
  THEN [w EXCEPT !.ctx[c].msgs_in.inflight_quota = @ - 1] ELSE w

(***************************************************************************)
(* List bookkeeping.                                                       *)
(***************************************************************************)
db__message_remove_keeps_ref(w, c, dir, i) ==
  LET md == MsgData(w, c, dir)
      item == md.inflight[i]
      md1 == [md EXCEPT !.inflight = DL_DELETE(md.inflight, i)]
  IN IF item.store # NoStore
     THEN LET pl == w.store[item.store].payloadlen
              md2 == [md1 EXCEPT !.msg_count = @ - 1, !.msg_bytes = @ - pl]
              md3 == IF item.qos > 0
                     THEN [md2 EXCEPT !.msg_count12 = @ - 1, !.msg_bytes12 = @ - pl]
                     ELSE md2
          IN SetMsgData(w, c, dir, md3)
     ELSE SetMsgData(w, c, dir, md1)

db__message_remove(w, c, dir, i) ==
  LET md == MsgData(w, c, dir)
      item == md.inflight[i]
      md1 == [md EXCEPT !.inflight = DL_DELETE(md.inflight, i)]
  IN IF item.store # NoStore
     THEN LET pl == w.store[item.store].payloadlen
              md2 == [md1 EXCEPT !.msg_count = @ - 1, !.msg_bytes = @ - pl]
              md3 == IF item.qos > 0
                     THEN [md2 EXCEPT !.msg_count12 = @ - 1, !.msg_bytes12 = @ - pl]
                     ELSE md2
          IN db__msg_store_ref_dec(SetMsgData(w, c, dir, md3), item.store)
     ELSE SetMsgData(w, c, dir, md1)

\* A promotion that takes the newest queued message.
db__message_dequeue_last(w, c, dir) ==
  LET md == MsgData(w, c, dir)
      msg == md.queued[Len(md.queued)]
      md1 == [md EXCEPT !.queued = SubSeq(md.queued, 1, Len(md.queued) - 1),
                        !.inflight = DL_APPEND(md.inflight, msg),
                        !.inflight_quota = IF @ > 0 THEN @ - 1 ELSE @]
  IN [SetMsgData(w, c, dir, md1) EXCEPT !.promoted = Append(@, msg.mid)]

db__message_dequeue_first(w, c, dir) ==
  LET md == MsgData(w, c, dir)
      msg == Head(md.queued)
      md1 == [md EXCEPT !.queued = Tail(md.queued),
                        !.inflight = DL_APPEND(md.inflight, msg),
                        !.inflight_quota = IF @ > 0 THEN @ - 1 ELSE @]
  IN [SetMsgData(w, c, dir, md1) EXCEPT !.promoted = Append(@, msg.mid)]

PublishState(qos) ==
  CASE qos = 0 -> dimq_ms.publish_qos0
    [] qos = 1 -> dimq_ms.publish_qos1
    [] qos = 2 -> dimq_ms.publish_qos2

(***************************************************************************)
(* Send primitives: they hand a packet to the connection's output buffer.  *)
(* send__publish refuses a packet larger than the peer's maximum packet    *)
(* size with OversizePacket.                                               *)
(***************************************************************************)
send__publish_rc(w, c, msg) ==
  IF w.ctx[c].maximum_packet_size > 0
     /\ w.store[msg.store].payloadlen > w.ctx[c].maximum_packet_size
  THEN dimq_ERR.OVERSIZE_PACKET ELSE dimq_ERR.SUCCESS

Emit(w, type, c, mid, dup) ==
  [w EXCEPT !.out = Append(@, [type |-> type, c |-> c, mid |-> mid, dup |-> dup])]

send__publish(w, c, msg) ==
  IF send__publish_rc(w, c, msg) = dimq_ERR.SUCCESS
  THEN Emit(w, "PUBLISH", c, msg.mid, msg.dup) ELSE w

send__pubrel(w, c, mid) == Emit(w, "PUBREL", c, mid, FALSE)

send__pubrec(w, c, mid) == Emit(w, "PUBREC", c, mid, FALSE)

send__connack(w, c, ack, reason_code) ==
  [w EXCEPT !.out = Append(@, [type |-> "CONNACK", c |-> c, mid |-> 0, dup |-> FALSE,
                               ack |-> ack, reason_code |-> reason_code])]

(***************************************************************************)
(* Per-entry send and the drains.                                          *)
(***************************************************************************)
\* The expiry branch of the per-entry send: the message must not be sent.
DropExpired_keeps_credit(w, c, i) ==
  SetRc(db__message_remove(w, c, dimq_md_out, i), dimq_ERR.SUCCESS)

DropExpired(w, c, i) ==
  LET msg == w.ctx[c].msgs_out.inflight[i]
      w1 == IF msg.direction = dimq_md_out /\ msg.qos > 0
            THEN util__increment_send_quota(w, c) ELSE w
  IN SetRc(db__message_remove(w1, c, dimq_md_out, i), dimq_ERR.SUCCESS)

\* A per-entry send that publishes again while the entry waits for the
\* acknowledgement of the peer.
db__message_write_inflight_out_single_resends(w, c, i) ==
  LET msg == w.ctx[c].msgs_out.inflight[i]
      st == w.store[msg.store]
  IN IF st.message_expiry_time # 0 /\ now > st.message_expiry_time
     THEN DropExpired(w, c, i)
     ELSE CASE msg.state = dimq_ms.publish_qos0 ->
                 SetRc(db__message_remove(send__publish(w, c, msg), c, dimq_md_out, i),
                       dimq_ERR.SUCCESS)
            [] msg.state \in {dimq_ms.publish_qos1, dimq_ms.publish_qos2,
                              dimq_ms.wait_for_puback, dimq_ms.wait_for_pubrec} ->
                 IF send__publish_rc(w, c, msg) = dimq_ERR.SUCCESS
                 THEN SetRc([send__publish(w, c, msg) EXCEPT
                               !.ctx[c].msgs_out.inflight[i].dup = TRUE,
                               !.ctx[c].msgs_out.inflight[i].state =
                                  IF msg.qos = 1
                                  THEN dimq_ms.wait_for_puback
                                  ELSE dimq_ms.wait_for_pubrec],
                            dimq_ERR.SUCCESS)
                 ELSE SetRc(db__message_remove(w, c, dimq_md_out, i), dimq_ERR.SUCCESS)
            [] msg.state = dimq_ms.resend_pubrel ->
                 SetRc([send__pubrel(w, c, msg.mid) EXCEPT
                          !.ctx[c].msgs_out.inflight[i].state = dimq_ms.wait_for_pubcomp],
                       dimq_ERR.SUCCESS)
            [] OTHER -> SetRc(w, dimq_ERR.SUCCESS)

db__message_write_inflight_out_single(w, c, i) ==
  LET msg == w.ctx[c].msgs_out.inflight[i]
      st == w.store[msg.store]
  IN IF st.message_expiry_time # 0 /\ now > st.message_expiry_time
     THEN DropExpired(w, c, i)
     ELSE CASE msg.state = dimq_ms.publish_qos0 ->
                 SetRc(db__message_remove(send__publish(w, c, msg), c, dimq_md_out, i),
                       dimq_ERR.SUCCESS)
            [] msg.state \in {dimq_ms.publish_qos1, dimq_ms.publish_qos2} ->
                 IF send__publish_rc(w, c, msg) = dimq_ERR.SUCCESS
                 THEN SetRc([send__publish(w, c, msg) EXCEPT
                               !.ctx[c].msgs_out.inflight[i].dup = TRUE,
                               !.ctx[c].msgs_out.inflight[i].state =
                                  IF msg.state = dimq_ms.publish_qos1
                                  THEN dimq_ms.wait_for_puback
                                  ELSE dimq_ms.wait_for_pubrec],
                            dimq_ERR.SUCCESS)
                 ELSE SetRc(db__message_remove(w, c, dimq_md_out, i), dimq_ERR.SUCCESS)
            [] msg.state = dimq_ms.resend_pubrel ->
                 SetRc([send__pubrel(w, c, msg.mid) EXCEPT
                          !.ctx[c].msgs_out.inflight[i].state = dimq_ms.wait_for_pubcomp],
                       dimq_ERR.SUCCESS)
            [] OTHER -> SetRc(w, dimq_ERR.SUCCESS)

\* The per-entry send together with a record of the call: the entry it ran on,
\* whether the entry had expired, what send__publish answers for it, and the
\* credit, the QoS >= 1 count and the inflight length before and after.
SendEntry(w, c, i) ==
  LET msg == w.ctx[c].msgs_out.inflight[i]
      st == w.store[msg.store]
      Recorded(w1) ==
        [w1 EXCEPT !.sends = Append(@,
           [mid |-> msg.mid, qos |-> msg.qos, state |-> msg.state,
            expired |-> st.message_expiry_time # 0 /\ now > st.message_expiry_time,
            publish_rc |-> send__publish_rc(w, c, msg),
            rc |-> w1.rc,
            quota |-> <<w.ctx[c].msgs_out.inflight_quota, w1.ctx[c].msgs_out.inflight_quota>>,
            count12 |-> <<w.ctx[c].msgs_out.msg_count12, w1.ctx[c].msgs_out.msg_count12>>,
            len |-> <<Len(w.ctx[c].msgs_out.inflight), Len(w1.ctx[c].msgs_out.inflight)>>,
            emitted |-> Len(w1.out) - Len(w.out)])]
  IN Recorded(db__message_write_inflight_out_single(w, c, i))

\* The forward walk of both drains: entry i, then the entry that followed it.
RECURSIVE WriteFrom(_, _, _)
WriteFrom(w, c, i) ==
  IF i > Len(w.ctx[c].msgs_out.inflight) THEN SetRc(w, dimq_ERR.SUCCESS)
  ELSE LET Removed(w1) == Len(w1.ctx[c].msgs_out.inflight) < Len(w.ctx[c].msgs_out.inflight)
           Following(w1) == IF w1.rc # dimq_ERR.SUCCESS THEN w1
                            ELSE WriteFrom(w1, c, IF Removed(w1) THEN i ELSE i + 1)
       IN Following(SendEntry(w, c, i))

\* The full drain without the test of the session state and the socket.
db__message_write_inflight_out_all_unguarded(w, c) == WriteFrom(w, c, 1)

db__message_write_inflight_out_all(w, c) ==
  IF w.ctx[c].state # dimq_cs.active \/ w.ctx[c].sock = FALSE
  THEN SetRc(w, dimq_ERR.SUCCESS)
  ELSE WriteFrom(w, c, 1)

IsPublishState(s) == s \in {dimq_ms.publish_qos0, dimq_ms.publish_qos1, dimq_ms.publish_qos2}

\* The backward walk of write_inflight_out_latest: from the tail towards the
\* head while the entry waits for its PUBLISH; the head itself is not tested.
RECURSIVE WalkBack(_, _)
WalkBack(list, i) ==
  IF i # 1 /\ IsPublishState(list[i].state) THEN WalkBack(list, i - 1) ELSE i

db__message_write_inflight_out_latest(w, c) ==
  LET inflight == w.ctx[c].msgs_out.inflight
  IN IF w.ctx[c].state # dimq_cs.active \/ w.ctx[c].sock = FALSE \/ inflight = <<>>
     THEN SetRc(w, dimq_ERR.SUCCESS)
     ELSE IF Len(inflight) = 1
     THEN SendEntry(w, c, 1)
     ELSE LET tail == WalkBack(inflight, Len(inflight))
          IN WriteFrom(w, c, IF tail # 1 THEN tail + 1 ELSE tail)

RECURSIVE WriteQueuedOutLoop(_, _)
WriteQueuedOutLoop(w, c) ==
  LET md == w.ctx[c].msgs_out
  IN IF md.queued = <<>> THEN w
     ELSE IF md.inflight_maximum # 0 /\ md.inflight_quota = 0 THEN w
     ELSE WriteQueuedOutLoop(
            db__message_dequeue_first(
              [w EXCEPT !.ctx[c].msgs_out.queued[1].state = PublishState(Head(md.queued).qos)],
              c, dimq_md_out), c)

db__message_write_queued_out(w, c) ==
  IF w.ctx[c].state # dimq_cs.active THEN SetRc(w, dimq_ERR.SUCCESS)
  ELSE SetRc(WriteQueuedOutLoop(w, c), dimq_ERR.SUCCESS)

(***************************************************************************)
(* Insert.                                                                 *)
(***************************************************************************)
InDestIds_skips_last(dest_ids, id) == \E i \in 1..(Len(dest_ids) - 1) : dest_ids[i] = id

InDestIds(dest_ids, id) == \E i \in 1..Len(dest_ids) : dest_ids[i] = id

\* The admission decision of message_insert: the state the new entry gets,
\* or the code returned without inserting.
\* An admission that lets an inbound message of any qos wait for PUBREL.
InsertDecision_accepts_lowqos(w, c, dir, qos) ==
  IF w.ctx[c].sock # FALSE
  THEN IF db__ready_for_flight(w, c, dir, qos)
       THEN IF dir = dimq_md_out THEN [state |-> PublishState(qos), rc |-> dimq_ERR.SUCCESS]
            ELSE [state |-> dimq_ms.wait_for_pubrel, rc |-> dimq_ERR.SUCCESS]
       ELSE IF qos # 0 /\ db__ready_for_queue(w, c, qos, dir)
       THEN [state |-> dimq_ms.queued, rc |-> RC_DROPPED]
       ELSE [state |-> dimq_ms.invalid, rc |-> RC_DROPPED]
  ELSE IF db__ready_for_queue(w, c, qos, dir)
       THEN [state |-> dimq_ms.queued, rc |-> dimq_ERR.SUCCESS]
       ELSE [state |-> dimq_ms.invalid, rc |-> RC_DROPPED]

InsertDecision(w, c, dir, qos) ==
  IF w.ctx[c].sock # FALSE
  THEN IF db__ready_for_flight(w, c, dir, qos)
       THEN IF dir = dimq_md_out THEN [state |-> PublishState(qos), rc |-> dimq_ERR.SUCCESS]
            ELSE IF qos = 2 THEN [state |-> dimq_ms.wait_for_pubrel, rc |-> dimq_ERR.SUCCESS]
            ELSE [state |-> dimq_ms.invalid, rc |-> RC_INBOUND_LOWQOS]
       ELSE IF qos # 0 /\ db__ready_for_queue(w, c, qos, dir)
       THEN [state |-> dimq_ms.queued, rc |-> RC_DROPPED]
       ELSE [state |-> dimq_ms.invalid, rc |-> RC_DROPPED]
  ELSE IF db__ready_for_queue(w, c, qos, dir)
       THEN [state |-> dimq_ms.queued, rc |-> dimq_ERR.SUCCESS]
       ELSE [state |-> dimq_ms.invalid, rc |-> RC_DROPPED]

db__message_insert(w, c, mid, dir, qos, retain, s, update) ==
  LET cx == w.ctx[c]
      pl == w.store[s].payloadlen
      \* the new entry, in the state d.state that the admission decided
      Entry(d) == [store |-> s, mid |-> mid, direction |-> dir, state |-> d.state,
                   dup |-> FALSE, qos |-> Min(qos, cx.max_qos)]
      \* DL_APPEND to the list the state selects
      Linked(md, d) == IF d.state = dimq_ms.queued
                       THEN [md EXCEPT !.queued = DL_APPEND(@, Entry(d))]
                       ELSE [md EXCEPT !.inflight = DL_APPEND(@, Entry(d))]
      Counted(md) == [md EXCEPT !.msg_count = @ + 1, !.msg_bytes = @ + pl,
                                !.msg_count12 = IF qos > 0 THEN @ + 1 ELSE @,
                                !.msg_bytes12 = IF qos > 0 THEN @ + pl ELSE @]
      \* the client id is appended to the store's dest_ids
      Noted(w2) == IF config.allow_duplicate_messages = FALSE /\ dir = dimq_md_out
                      /\ retain = FALSE
                   THEN [w2 EXCEPT !.store[s].dest_ids = Append(@, cx.id)]
                   ELSE w2
      Charged(w3) == IF dir = dimq_md_out /\ Min(qos, cx.max_qos) > 0
                     THEN util__decrement_send_quota(w3, c) ELSE w3
      Inserted(w1, d) ==
        Charged(Noted(SetMsgData(w1, c, dir, Counted(Linked(MsgData(w1, c, dir), d)))))
      Drained(w5) == IF w5.rc # dimq_ERR.SUCCESS THEN w5
                     ELSE db__message_write_queued_out(w5, c)
      Placed(d) ==
        IF d.state = dimq_ms.invalid
        THEN IF d.rc = RC_DROPPED
             THEN [SetRc(w, RC_DROPPED) EXCEPT !.ctx[c].is_dropping = TRUE]
             ELSE SetRc(w, d.rc)
        ELSE IF dir = dimq_md_out /\ update
        THEN Drained(db__message_write_inflight_out_latest(
                       Inserted(db__msg_store_ref_inc(w, s), d), c))
        ELSE SetRc(Inserted(db__msg_store_ref_inc(w, s), d), d.rc)
  IN IF cx.id = NoId THEN SetRc(w, dimq_ERR.SUCCESS)
     ELSE IF cx.protocol # dimq_p.mqtt5 /\ config.allow_duplicate_messages = FALSE
             /\ dir = dimq_md_out /\ retain = FALSE
             /\ InDestIds(w.store[s].dest_ids, cx.id)
     THEN SetRc(w, dimq_ERR.SUCCESS)
     ELSE IF cx.sock = FALSE /\ qos = 0 /\ ~config.queue_qos0_messages
     THEN SetRc(w, RC_DROPPED)
     ELSE Placed(InsertDecision(w, c, dir, qos))

(***************************************************************************)
(* Acknowledgements of outbound messages.                                  *)
(***************************************************************************)
HasMid(list, mid) == \E i \in 1..Len(list) : list[i].mid = mid

FirstWithMid(list, mid) ==
  IF \E i \in 1..Len(list) : list[i].mid = mid
  THEN CHOOSE i \in 1..Len(list) : list[i].mid = mid /\ \A j \in 1..(i - 1) : list[j].mid # mid
  ELSE 0

RECURSIVE DeleteOutgoingPromote(_, _, _)
DeleteOutgoingPromote(w, c, msg_index) ==
  LET md == w.ctx[c].msgs_out
  IN IF md.queued = <<>> THEN w
     ELSE IF md.inflight_maximum # 0 /\ msg_index >= md.inflight_maximum THEN w
     ELSE DeleteOutgoingPromote(
            db__message_dequeue_first(
              [w EXCEPT !.ctx[c].msgs_out.queued[1].state = PublishState(Head(md.queued).qos)],
              c, dimq_md_out),
            c, msg_index + 1)

\* The index that message_delete_outgoing carries from its first loop into
\* its second: the number of inflight entries in front of the match, or the
\* whole list when nothing matches.
DeleteOutgoingIndex(inflight, i) == IF i = 0 THEN Len(inflight) ELSE i - 1

db__message_delete_outgoing(w, c, mid, expect_state, qos) ==
  LET inflight == w.ctx[c].msgs_out.inflight
      i == FirstWithMid(inflight, mid)
  IN IF i # 0 /\ inflight[i].qos # qos THEN SetRc(w, dimq_ERR.PROTOCOL)
     ELSE IF i # 0 /\ qos = 2 /\ inflight[i].state # expect_state THEN SetRc(w, dimq_ERR.PROTOCOL)
     ELSE db__message_write_inflight_out_latest(
            DeleteOutgoingPromote(
              IF i # 0 THEN db__message_remove(w, c, dimq_md_out, i) ELSE w,
              c, DeleteOutgoingIndex(inflight, i)),
            c)

db__message_update_outgoing(w, c, mid, state, qos) ==
  LET inflight == w.ctx[c].msgs_out.inflight
      i == FirstWithMid(inflight, mid)
  IN IF i = 0 THEN SetRc(w, dimq_ERR.NOT_FOUND)
     ELSE IF inflight[i].qos # qos THEN SetRc(w, dimq_ERR.PROTOCOL)
     ELSE SetRc([w EXCEPT !.ctx[c].msgs_out.inflight[i].state = state], dimq_ERR.SUCCESS)

(***************************************************************************)
(* Deleting the lists of a session.                                        *)
(***************************************************************************)
RECURSIVE DeleteListRefs(_, _)
DeleteListRefs(w, list) ==
  IF list = <<>> THEN w
  ELSE DeleteListRefs(db__msg_store_ref_dec(w, Head(list).store), Tail(list))

db__messages_delete(w, c, force_free) ==
  LET cx == w.ctx[c]
      w1 == IF force_free \/ cx.clean_start
            THEN [DeleteListRefs(DeleteListRefs(w, cx.msgs_in.inflight), cx.msgs_in.queued)
                   EXCEPT !.ctx[c].msgs_in.inflight = <<>>, !.ctx[c].msgs_in.queued = <<>>,
                          !.ctx[c].msgs_in.msg_bytes = 0, !.ctx[c].msgs_in.msg_bytes12 = 0,
                          !.ctx[c].msgs_in.msg_count = 0, !.ctx[c].msgs_in.msg_count12 = 0]
            ELSE w
      w2 == IF force_free \/ cx.clean_start
            THEN [DeleteListRefs(DeleteListRefs(w1, cx.msgs_out.inflight), cx.msgs_out.queued)
                   EXCEPT !.ctx[c].msgs_out.inflight = <<>>, !.ctx[c].msgs_out.queued = <<>>,
                          !.ctx[c].msgs_out.msg_bytes = 0, !.ctx[c].msgs_out.msg_bytes12 = 0,
                          !.ctx[c].msgs_out.msg_count = 0, !.ctx[c].msgs_out.msg_count12 = 0]
            ELSE w1
  IN SetRc(w2, dimq_ERR.SUCCESS)

(***************************************************************************)
(* Reconnect reset.                                                        *)
(***************************************************************************)
ResetOutState_regresses(msg) ==
  CASE msg.qos = 0 -> dimq_ms.publish_qos0
    [] msg.qos = 1 -> dimq_ms.publish_qos1
    [] msg.qos = 2 -> dimq_ms.publish_qos2

ResetOutState_keeps_waiting(msg) ==
  CASE msg.qos = 0 -> dimq_ms.publish_qos0
    [] msg.qos = 1 -> msg.state
    [] msg.qos = 2 -> IF msg.state = dimq_ms.wait_for_pubcomp
                      THEN dimq_ms.resend_pubrel ELSE msg.state

ResetOutState(msg) ==
  CASE msg.qos = 0 -> dimq_ms.publish_qos0
    [] msg.qos = 1 -> dimq_ms.publish_qos1
    [] msg.qos = 2 -> IF msg.state = dimq_ms.wait_for_pubcomp
                      THEN dimq_ms.resend_pubrel ELSE dimq_ms.publish_qos2

\* Adds entry msg to the counters of direction dir, as both loops of a reset do.
CountEntry(w, c, dir, msg) ==
  LET md == MsgData(w, c, dir)
      pl == w.store[msg.store].payloadlen
      md1 == [md EXCEPT !.msg_count = @ + 1, !.msg_bytes = @ + pl]
  IN SetMsgData(w, c, dir,
       IF msg.qos > 0 THEN [md1 EXCEPT !.msg_count12 = @ + 1, !.msg_bytes12 = @ + pl] ELSE md1)

SetQueuedState(w, c, dir, i, state) ==
  IF dir = dimq_md_out THEN [w EXCEPT !.ctx[c].msgs_out.queued[i].state = state]
  ELSE [w EXCEPT !.ctx[c].msgs_in.queued[i].state = state]

RECURSIVE ResetOutInflight(_, _, _)
ResetOutInflight(w, c, i) ==
  IF i > Len(w.ctx[c].msgs_out.inflight) THEN w
  ELSE LET msg == w.ctx[c].msgs_out.inflight[i]
           w1 == CountEntry(w, c, dimq_md_out, msg)
           w2 == IF msg.qos > 0 THEN util__decrement_send_quota(w1, c) ELSE w1
       IN ResetOutInflight([w2 EXCEPT !.ctx[c].msgs_out.inflight[i].state = ResetOutState(msg)],
                           c, i + 1)

\* The queued loop of both resets.  The entry under the cursor gets the
\* publish state, and dequeue_first moves the head of the list.
RECURSIVE ResetQueued(_, _, _, _)
ResetQueued(w, c, dir, i) ==
  IF i > Len(MsgData(w, c, dir).queued) THEN w
  ELSE LET msg == MsgData(w, c, dir).queued[i]
           w1 == CountEntry(w, c, dir, msg)
       IN IF db__ready_for_flight(w1, c, dir, msg.qos)
          THEN ResetQueued(
                 db__message_dequeue_first(SetQueuedState(w1, c, dir, i, PublishState(msg.qos)),
                                           c, dir),
                 c, dir, i)
          ELSE ResetQueued(w1, c, dir, i + 1)

db__message_reconnect_reset_outgoing(w, c) ==
  LET w0 == [w EXCEPT !.ctx[c].msgs_out.msg_bytes = 0, !.ctx[c].msgs_out.msg_bytes12 = 0,
                      !.ctx[c].msgs_out.msg_count = 0, !.ctx[c].msgs_out.msg_count12 = 0,
                      !.ctx[c].msgs_out.inflight_quota = w.ctx[c].msgs_out.inflight_maximum]
  IN SetRc(ResetQueued(ResetOutInflight(w0, c, 1), c, dimq_md_out, 1), dimq_ERR.SUCCESS)

RECURSIVE ResetInInflight(_, _, _)
ResetInInflight(w, c, i) ==
  IF i > Len(w.ctx[c].msgs_in.inflight) THEN w
  ELSE LET msg == w.ctx[c].msgs_in.inflight[i]
           w1 == CountEntry(w, c, dimq_md_in, msg)
           w2 == IF msg.qos > 0 THEN util__decrement_receive_quota(w1, c) ELSE w1
       IN IF msg.qos # 2
          THEN ResetInInflight(db__message_remove(w2, c, dimq_md_in, i), c, i)
          ELSE ResetInInflight(w2, c, i + 1)

db__message_reconnect_reset_incoming(w, c) ==
  LET w0 == [w EXCEPT !.ctx[c].msgs_in.msg_bytes = 0, !.ctx[c].msgs_in.msg_bytes12 = 0,
                      !.ctx[c].msgs_in.msg_count = 0, !.ctx[c].msgs_in.msg_count12 = 0,
                      !.ctx[c].msgs_in.inflight_quota = w.ctx[c].msgs_in.inflight_maximum]
  IN SetRc(ResetQueued(ResetInInflight(w0, c, 1), c, dimq_md_in, 1), dimq_ERR.SUCCESS)

db__message_reconnect_reset(w, c) ==
  db__message_reconnect_reset_incoming(db__message_reconnect_reset_outgoing(w, c), c)

(***************************************************************************)
(* Inbound QoS 2.                                                          *)
(***************************************************************************)
db__message_remove_incoming(w, c, mid) ==
  LET inflight == w.ctx[c].msgs_in.inflight
      i == FirstWithMid(inflight, mid)
  IN IF i = 0 THEN SetRc(w, dimq_ERR.NOT_FOUND)
     ELSE IF w.store[inflight[i].store].qos # 2 THEN SetRc(w, dimq_ERR.PROTOCOL)
     ELSE SetRc(db__message_remove(w, c, dimq_md_in, i), dimq_ERR.SUCCESS)

\* The router (subscribe_route): it holds a reference on the store while it
\* inserts the message for each destination, with write-through.
\* dests is the sequence of matching subscriptions, each a destination context
\* with the granted qos and the retain flag handed to the subscriber.
dimq__mid_generate(w, c) == w.ctx[c].last_mid + 1

RECURSIVE RouteInsert(_, _, _)
RouteInsert(w, s, dests) ==
  IF dests = <<>> THEN w
  ELSE LET d == Head(dests)
           mid == IF d.qos > 0 THEN dimq__mid_generate(w, d.c) ELSE 0
           w1 == IF d.qos > 0 THEN [w EXCEPT !.ctx[d.c].last_mid = mid] ELSE w
       IN RouteInsert(db__message_insert(w1, d.c, mid, dimq_md_out, d.qos, d.retain, s, d.update),
                      s, Tail(dests))

sub__messages_queue(w, s, dests) ==
  SetRc(db__msg_store_ref_dec(RouteInsert(db__msg_store_ref_inc(w, s), s, dests), s),
        IF dests = <<>> THEN dimq_ERR.NO_SUBSCRIBERS ELSE dimq_ERR.SUCCESS)

RECURSIVE ReleaseInflight(_, _, _, _, _)
ReleaseInflight(w, c, mid, dests, i) ==
  IF i > Len(w.ctx[c].msgs_in.inflight) THEN [w |-> w, deleted |-> FALSE, failed |-> FALSE]
  ELSE LET tail == w.ctx[c].msgs_in.inflight[i]
       IN IF tail.mid # mid
          THEN ReleaseInflight(w, c, mid, dests, i + 1)
          ELSE IF w.store[tail.store].qos # 2
          THEN [w |-> SetRc(w, dimq_ERR.PROTOCOL), deleted |-> FALSE, failed |-> TRUE]
          ELSE [ReleaseInflight(
                  db__message_remove(IF w.store[tail.store].topic = NoTopic THEN w
                                     ELSE sub__messages_queue(w, tail.store, dests),
                                     c, dimq_md_in, i),
                  c, mid, dests, i)
                EXCEPT !.deleted = TRUE]

RECURSIVE ReleasePromote(_, _, _, _)
ReleasePromote(w, c, msg_index, i) ==
  LET md == w.ctx[c].msgs_in
  IN IF i > Len(md.queued) THEN w
     ELSE IF md.inflight_maximum # 0 /\ msg_index >= md.inflight_maximum THEN w
     ELSE IF md.queued[i].qos = 2
     THEN ReleasePromote(
            db__message_dequeue_first(
              SetQueuedState(send__pubrec(w, c, md.queued[i].mid), c, dimq_md_in, i,
                             dimq_ms.wait_for_pubrel),
              c, dimq_md_in),
            c, msg_index + 1, i)
     ELSE ReleasePromote(w, c, msg_index + 1, i + 1)

db__message_release_incoming(w, c, mid, dests) ==
  LET Promoted(r) ==
        IF r.failed THEN r.w
        ELSE SetRc(ReleasePromote(r.w, c, Len(w.ctx[c].msgs_in.inflight), 1),
                   IF r.deleted THEN dimq_ERR.SUCCESS ELSE dimq_ERR.NOT_FOUND)
  IN Promoted(ReleaseInflight(w, c, mid, dests, 1))

RECURSIVE WriteQueuedInLoop(_, _, _)
WriteQueuedInLoop(w, c, i) ==
  LET md == w.ctx[c].msgs_in
  IN IF i > Len(md.queued) THEN w
     ELSE IF w.ctx[c].msgs_out.inflight_maximum # 0 /\ md.inflight_quota = 0 THEN w
     ELSE IF md.queued[i].qos = 2
     THEN LET \* tail->state = wait_for_pubrel: tail is now the new inflight tail
              \* when it was the head of queued, and entry i-1 of queued otherwise
              Waiting(w2) ==
                IF i = 1
                THEN [w2 EXCEPT !.ctx[c].msgs_in.inflight[Len(w2.ctx[c].msgs_in.inflight)].state =
                                  dimq_ms.wait_for_pubrel]
                ELSE SetQueuedState(w2, c, dimq_md_in, i - 1, dimq_ms.wait_for_pubrel)
          IN WriteQueuedInLoop(
               Waiting(send__pubrec(
                         db__message_dequeue_first(
                           SetQueuedState(w, c, dimq_md_in, i, dimq_ms.send_pubrec),
                           c, dimq_md_in),
                         c, md.queued[i].mid)),
               c, i)
     ELSE WriteQueuedInLoop(w, c, i + 1)

db__message_write_queued_in(w, c) ==
  IF w.ctx[c].state # dimq_cs.active THEN SetRc(w, dimq_ERR.SUCCESS)
  ELSE SetRc(WriteQueuedInLoop(w, c, 1), dimq_ERR.SUCCESS)

(***************************************************************************)
(* CONNECT: takeover, ACL purge and installation of the session.           *)
(***************************************************************************)
\* The ACL checker: user u2 may neither read nor write topic t2.
dimq_acl_check(w, c, topic, access) ==
  IF w.ctx[c].username = "u2" /\ topic = "t2" THEN dimq_ERR.ACL_DENIED ELSE dimq_ERR.SUCCESS

ListOf(w, c, dir, which) ==
  IF which = "inflight" THEN MsgData(w, c, dir).inflight ELSE MsgData(w, c, dir).queued

SetListOf(w, c, dir, which, list) ==
  LET md == MsgData(w, c, dir)
  IN SetMsgData(w, c, dir, IF which = "inflight" THEN [md EXCEPT !.inflight = list]
                           ELSE [md EXCEPT !.queued = list])

RECURSIVE CheckAclFrom(_, _, _, _, _)
CheckAclFrom(w, c, dir, which, i) ==
  LET head == ListOf(w, c, dir, which)
  IN IF i > Len(head) THEN w
     ELSE LET msg_tail == head[i]
              access == IF msg_tail.direction = dimq_md_out THEN dimq_ACL_READ ELSE dimq_ACL_WRITE
          IN IF dimq_acl_check(w, c, w.store[msg_tail.store].topic, access) # dimq_ERR.SUCCESS
             THEN CheckAclFrom(
                    db__msg_store_ref_dec(SetListOf(w, c, dir, which, DL_DELETE(head, i)),
                                          msg_tail.store),
                    c, dir, which, i)
             ELSE CheckAclFrom(w, c, dir, which, i + 1)

\* The purge of the CONNECT handler without the two queued lists.
connection_check_acl_inflight_only(w, c, dir, which) ==
  IF which = "queued" THEN w ELSE CheckAclFrom(w, c, dir, which, 1)

connection_check_acl(w, c, dir, which) == CheckAclFrom(w, c, dir, which, 1)

\* Closing the connection of a session: the socket becomes invalid; a session
\* that does not outlive its connection leaves the registry and waits for
\* its cleanup.
context__disconnect(w, c) ==
  LET w1 == [w EXCEPT !.ctx[c].sock = FALSE]
  IN IF w.ctx[c].session_expiry_interval = 0
     THEN [w1 EXCEPT !.by_id = @ \ {c}, !.ctx[c].id = NoId]
     ELSE w1

do_disconnect(w, c) == context__disconnect(w, c)

context__send_will(w, c) ==
  IF w.ctx[c].will THEN Emit(w, "WILL", c, 0, FALSE) ELSE w

FoundContext(w, c) ==
  IF \E f \in w.by_id : w.ctx[f].id = w.ctx[c].id
  THEN CHOOSE f \in w.by_id : w.ctx[f].id = w.ctx[c].id
  ELSE 0

\* The takeover without line 206: the old session keeps its expiry interval.
Takeover_keeps_session(w, c, f) ==
  LET cx == w.ctx[c]
      fx == w.ctx[f]
      continued == cx.clean_start = FALSE /\ fx.session_expiry_interval > 0
      nonempty == fx.msgs_in.inflight # <<>> \/ fx.msgs_in.queued # <<>>
                  \/ fx.msgs_out.inflight # <<>> \/ fx.msgs_out.queued # <<>>
      Moved ==
        IF continued /\ nonempty
        THEN db__message_reconnect_reset(
               [w EXCEPT !.ctx[c].msgs_in =
                            [fx.msgs_in EXCEPT !.inflight_quota = cx.msgs_in.inflight_quota,
                                               !.inflight_maximum = cx.msgs_in.inflight_maximum],
                         !.ctx[c].msgs_out =
                            [fx.msgs_out EXCEPT !.inflight_quota = cx.msgs_out.inflight_quota,
                                                !.inflight_maximum = cx.msgs_out.inflight_maximum],
                         !.ctx[f].msgs_in = ZeroMsgData,
                         !.ctx[f].msgs_out = ZeroMsgData], c)
        ELSE w
      Continued(w1) == IF continued THEN [w1 EXCEPT !.ctx[c].last_mid = fx.last_mid] ELSE w1
      Retired(w3) == [w3 EXCEPT !.ctx[f].will = FALSE, !.ctx[f].clean_start = TRUE,
                                !.ctx[f].state = dimq_cs.duplicate]
  IN do_disconnect(Retired(Continued(Moved)), f)

\* The takeover without the third condition of line 195: a new connection with
\* clean_start set does not make the old will due.
Takeover_will_unless_new_clean(w, c, f) ==
  LET cx == w.ctx[c]
      fx == w.ctx[f]
      continued == cx.clean_start = FALSE /\ fx.session_expiry_interval > 0
      nonempty == fx.msgs_in.inflight # <<>> \/ fx.msgs_in.queued # <<>>
                  \/ fx.msgs_out.inflight # <<>> \/ fx.msgs_out.queued # <<>>
      \* the lists move to the new context, which keeps its own window
      Moved ==
        IF continued /\ nonempty
        THEN db__message_reconnect_reset(
               [w EXCEPT !.ctx[c].msgs_in =
                            [fx.msgs_in EXCEPT !.inflight_quota = cx.msgs_in.inflight_quota,
                                               !.inflight_maximum = cx.msgs_in.inflight_maximum],
                         !.ctx[c].msgs_out =
                            [fx.msgs_out EXCEPT !.inflight_quota = cx.msgs_out.inflight_quota,
                                                !.inflight_maximum = cx.msgs_out.inflight_maximum],
                         !.ctx[f].msgs_in = ZeroMsgData,
                         !.ctx[f].msgs_out = ZeroMsgData], c)
        ELSE w
      Continued(w1) == IF continued THEN [w1 EXCEPT !.ctx[c].last_mid = fx.last_mid] ELSE w1
      WillSent(w2) == IF (fx.protocol = dimq_p.mqtt5 /\ fx.session_expiry_interval = 0)
                         \/ (fx.protocol # dimq_p.mqtt5 /\ fx.clean_start = TRUE)
                      THEN context__send_will(w2, f) ELSE w2
      Retired(w3) == [w3 EXCEPT !.ctx[f].will = FALSE, !.ctx[f].clean_start = TRUE,
                                !.ctx[f].session_expiry_interval = 0,
                                !.ctx[f].state = dimq_cs.duplicate]
  IN do_disconnect(Retired(WillSent(Continued(Moved))), f)

Takeover(w, c, f) ==
  LET cx == w.ctx[c]
      fx == w.ctx[f]
      continued == cx.clean_start = FALSE /\ fx.session_expiry_interval > 0
      nonempty == fx.msgs_in.inflight # <<>> \/ fx.msgs_in.queued # <<>>
                  \/ fx.msgs_out.inflight # <<>> \/ fx.msgs_out.queued # <<>>
      \* the lists move to the new context, which keeps its own window
      Moved ==
        IF continued /\ nonempty
        THEN db__message_reconnect_reset(
               [w EXCEPT !.ctx[c].msgs_in =
                            [fx.msgs_in EXCEPT !.inflight_quota = cx.msgs_in.inflight_quota,
                                               !.inflight_maximum = cx.msgs_in.inflight_maximum],
                         !.ctx[c].msgs_out =
                            [fx.msgs_out EXCEPT !.inflight_quota = cx.msgs_out.inflight_quota,
                                                !.inflight_maximum = cx.msgs_out.inflight_maximum],
                         !.ctx[f].msgs_in = ZeroMsgData,
                         !.ctx[f].msgs_out = ZeroMsgData], c)
        ELSE w
      Continued(w1) == IF continued THEN [w1 EXCEPT !.ctx[c].last_mid = fx.last_mid] ELSE w1
      WillSent(w2) == IF (fx.protocol = dimq_p.mqtt5 /\ fx.session_expiry_interval = 0)
                         \/ (fx.protocol # dimq_p.mqtt5 /\ fx.clean_start = TRUE)
                         \/ cx.clean_start = TRUE
                      THEN context__send_will(w2, f) ELSE w2
      Retired(w3) == [w3 EXCEPT !.ctx[f].will = FALSE, !.ctx[f].clean_start = TRUE,
                                !.ctx[f].session_expiry_interval = 0,
                                !.ctx[f].state = dimq_cs.duplicate]
  IN do_disconnect(Retired(WillSent(Continued(Moved))), f)

connect__on_authorised(w, c, listener_max_qos) ==
  LET f == FoundContext(w, c)
      connect_ack == IF f # 0 /\ w.ctx[c].clean_start = FALSE
                        /\ w.ctx[f].session_expiry_interval > 0
                     THEN 1 ELSE 0
      \* messages the new user may not read or write leave the four lists
      Purged(w2) ==
        connection_check_acl(
          connection_check_acl(
            connection_check_acl(
              connection_check_acl([w2 EXCEPT !.ctx[c].is_dropping = FALSE],
                                   c, dimq_md_in, "inflight"),
              c, dimq_md_in, "queued"),
            c, dimq_md_out, "inflight"),
          c, dimq_md_out, "queued")
      Registered(w3) ==
        [w3 EXCEPT !.by_id = @ \cup {c}, !.ctx[c].max_qos = listener_max_qos]
      capped == config.max_keepalive # 0
                /\ (w.ctx[c].keepalive > config.max_keepalive \/ w.ctx[c].keepalive = 0)
      Capped(w4) ==
        IF capped THEN [w4 EXCEPT !.ctx[c].keepalive = config.max_keepalive] ELSE w4
      Installed(w5) ==
        send__connack([w5 EXCEPT !.ctx[c].state = dimq_cs.active], c, connect_ack,
                      CONNACK.ACCEPTED)
      Written(w6) ==
        IF w6.rc # dimq_ERR.SUCCESS THEN w6 ELSE db__message_write_inflight_out_all(w6, c)
      Finished(w4) ==
        IF capped /\ w.ctx[c].protocol # dimq_p.mqtt5
        THEN SetRc(send__connack(Capped(w4), c, connect_ack,
                                 CONNACK.REFUSED_IDENTIFIER_REJECTED),
                   dimq_ERR.INVAL)
        ELSE Written(db__message_write_queued_out(Installed(Capped(w4)), c))
  IN Finished(Registered(Purged(IF f # 0 THEN Takeover(w, c, f) ELSE w)))

\* The answer of the extended authentication to the method a CONNECT names.
dimq_security_auth_start(auth_method) ==
  CASE auth_method = "granted" -> dimq_ERR.SUCCESS
    [] auth_method = "challenge" -> dimq_ERR.AUTH_CONTINUE
    [] auth_method = "denied" -> dimq_ERR.AUTH
    [] auth_method = "unknown" -> dimq_ERR.NOT_SUPPORTED
    [] OTHER -> dimq_ERR.INVAL

\* The password lookup: user u3 has no valid password, the lookup of user u4 ends in an error.
dimq_unpwd_check(w, c) ==
  CASE w.ctx[c].username = "u3" -> dimq_ERR.AUTH
    [] w.ctx[c].username = "u4" -> dimq_ERR.INVAL
    [] OTHER -> dimq_ERR.SUCCESS

\* The exit of handle__connect at its label handle_connect_error.
handle_connect_error(w, c, rc) ==
  SetRc([w EXCEPT !.ctx[c].will = FALSE, !.ctx[c].clean_start = TRUE,
                  !.ctx[c].session_expiry_interval = 0], rc)

\* handle__connect behind its state check, for a packet with a protocol name
\* of four or six bytes and a valid client id, flags and length: the check of
\* the protocol name and version, the session attributes read from the
\* packet, the will checks, the authentication and the post-authorisation
\* step.
ReadConnect(w, c, p) ==
  LET protocol ==
        IF p.protocol_name = PROTOCOL.NAME_v31 THEN dimq_p.mqtt31
        ELSE IF p.protocol_version = PROTOCOL.VERSION_v311 THEN dimq_p.mqtt311
        ELSE dimq_p.mqtt5
      v5 == p.protocol_version = PROTOCOL.VERSION_v5
      Versioned ==
        [w EXCEPT !.ctx[c].protocol = protocol,
                  !.ctx[c].session_expiry_interval =
                     IF p.clean_start = FALSE /\ ~v5 THEN SESSION_NEVER_EXPIRES ELSE 0]
      Propertied(w1) ==
        [w1 EXCEPT !.ctx[c].keepalive = p.keepalive,
                   !.ctx[c].session_expiry_interval = IF v5 THEN p.session_expiry_interval ELSE @,
                   !.ctx[c].maximum_packet_size = p.maximum_packet_size]
      Identified(w2) ==
        [w2 EXCEPT !.ctx[c].id = p.id,
                   !.ctx[c].username = p.username,
                   !.ctx[c].clean_start = p.clean_start,
                   !.ctx[c].will = p.will]
      Anonymous(w3) == [w3 EXCEPT !.ctx[c].id = NoId]
      Refused(w3, reason_code, rc) ==
        handle_connect_error(send__connack(w3, c, 0, reason_code), c, rc)
      Authenticated(w4) ==
        IF p.auth_method # "none"
        THEN CASE dimq_security_auth_start(p.auth_method) = dimq_ERR.SUCCESS ->
                    connect__on_authorised(w4, c, p.max_qos)
               [] dimq_security_auth_start(p.auth_method) = dimq_ERR.AUTH_CONTINUE ->
                    SetRc(Emit([w4 EXCEPT !.ctx[c].state = dimq_cs.authenticating],
                               "AUTH", c, 0, FALSE),
                          dimq_ERR.SUCCESS)
               [] dimq_security_auth_start(p.auth_method) = dimq_ERR.AUTH ->
                    Refused(Anonymous(w4), MQTT_RC.NOT_AUTHORIZED, dimq_ERR.AUTH)
               [] dimq_security_auth_start(p.auth_method) = dimq_ERR.NOT_SUPPORTED ->
                    Refused(Anonymous(w4), MQTT_RC.BAD_AUTHENTICATION_METHOD,
                            dimq_ERR.NOT_SUPPORTED)
               [] OTHER ->
                    handle_connect_error(Anonymous(w4), c,
                                         dimq_security_auth_start(p.auth_method))
        ELSE CASE dimq_unpwd_check(w4, c) = dimq_ERR.SUCCESS ->
                    connect__on_authorised(w4, c, p.max_qos)
               [] dimq_unpwd_check(w4, c) = dimq_ERR.AUTH ->
                    Refused(Anonymous(w4),
                            IF v5 THEN MQTT_RC.NOT_AUTHORIZED
                            ELSE CONNACK.REFUSED_NOT_AUTHORIZED,
                            dimq_ERR.AUTH)
               [] OTHER -> handle_connect_error(Anonymous(w4), c, dimq_ERR.UNKNOWN)
  IN IF p.protocol_name \notin {PROTOCOL.NAME_v31, PROTOCOL.NAME}
     THEN handle_connect_error(w, c, dimq_ERR.PROTOCOL)
     ELSE IF \/ /\ p.protocol_name = PROTOCOL.NAME_v31
                /\ p.protocol_version # PROTOCOL.VERSION_v31
             \/ /\ p.protocol_name = PROTOCOL.NAME
                /\ p.protocol_version \notin {PROTOCOL.VERSION_v311, PROTOCOL.VERSION_v5}
     THEN Refused(w, CONNACK.REFUSED_PROTOCOL_VERSION, dimq_ERR.PROTOCOL)
     ELSE IF p.will /\ p.will_retain /\ config.retain_available = FALSE
     THEN IF v5 THEN Refused(Versioned, MQTT_RC.RETAIN_NOT_SUPPORTED, dimq_ERR.NOT_SUPPORTED)
          ELSE handle_connect_error(Versioned, c, dimq_ERR.NOT_SUPPORTED)
     ELSE IF p.will /\ p.will_qos > p.max_qos
     THEN IF v5 THEN Refused(Propertied(Versioned), MQTT_RC.QOS_NOT_SUPPORTED,
                             dimq_ERR.NOT_SUPPORTED)
          ELSE handle_connect_error(Propertied(Versioned), c, dimq_ERR.NOT_SUPPORTED)
     ELSE Authenticated(Identified(Propertied(Versioned)))

\* A second CONNECT on a connection that is authenticating is read again.
handle__connect_while_authenticating(w, c, p) ==
  IF w.ctx[c].state \notin {dimq_cs.new, dimq_cs.authenticating}
  THEN handle_connect_error(w, c, dimq_ERR.PROTOCOL)
  ELSE ReadConnect(w, c, p)

handle__connect(w, c, p) ==
  IF w.ctx[c].state # dimq_cs.new THEN handle_connect_error(w, c, dimq_ERR.PROTOCOL)
  ELSE ReadConnect(w, c, p)

(***************************************************************************)
(* Topic names and topic filters (util_topic.c).  A string is the sequence *)
(* of its bytes; the byte behind the last one is the terminating NUL.      *)
(***************************************************************************)
NUL == "nul"

\* A publish-topic check that looks for '+' only.
dimq_pub_topic_check_plus_only(str) ==
  IF \E i \in 1..Len(str) : str[i] = "+" THEN dimq_ERR.INVAL
  ELSE IF Len(str) > 65535 THEN dimq_ERR.INVAL
  ELSE dimq_ERR.SUCCESS

\* dimq_pub_topic_check: a '+' or '#' anywhere, a length above 65535 or more
\* levels than the hierarchy limit make a publish topic invalid.
dimq_pub_topic_check(str) ==
  LET hier_count == Cardinality({i \in 1..Len(str) : str[i] = "/"})
  IN IF \E i \in 1..Len(str) : str[i] \in {"+", "#"} THEN dimq_ERR.INVAL
     ELSE IF Len(str) > 65535 THEN dimq_ERR.INVAL
     ELSE IF hier_count > TOPIC_HIERARCHY_LIMIT THEN dimq_ERR.INVAL
     ELSE dimq_ERR.SUCCESS

\* A subscribe-filter check that does not look at the byte before a wildcard.
dimq_sub_topic_check_no_lookbehind(str) ==
  LET At(i) == IF i \in 1..Len(str) THEN str[i] ELSE NUL
  IN IF \E i \in 1..Len(str) :
           \/ At(i) = "+" /\ At(i + 1) # NUL /\ At(i + 1) # "/"
           \/ At(i) = "#" /\ At(i + 1) # NUL
     THEN dimq_ERR.INVAL
     ELSE dimq_ERR.SUCCESS

\* dimq_sub_topic_check: the walk over a NUL-terminated filter; c is the byte
\* before position i and str[1] of the source the byte after it.
dimq_sub_topic_check(str) ==
  LET At(i) == IF i \in 1..Len(str) THEN str[i] ELSE NUL
      hier_count == Cardinality({i \in 1..Len(str) : str[i] = "/"})
      BadByte(i) ==
        \/ /\ At(i) = "+"
           /\ \/ At(i - 1) # NUL /\ At(i - 1) # "/"
              \/ At(i + 1) # NUL /\ At(i + 1) # "/"
        \/ /\ At(i) = "#"
           /\ \/ At(i - 1) # NUL /\ At(i - 1) # "/"
              \/ At(i + 1) # NUL
  IN IF \E i \in 1..Len(str) : BadByte(i) THEN dimq_ERR.INVAL
     ELSE IF Len(str) > 65535 THEN dimq_ERR.INVAL
     ELSE IF hier_count > TOPIC_HIERARCHY_LIMIT THEN dimq_ERR.INVAL
     ELSE dimq_ERR.SUCCESS

\* dimq_sub_topic_check2: the walk over the first len bytes of a filter.
dimq_sub_topic_check2(str, len) ==
  LET Before(i) == IF i > 1 THEN str[i - 1] ELSE NUL
      hier_count == Cardinality({i \in 1..len : str[i] = "/"})
      BadByte(i) ==
        \/ /\ str[i] = "+"
           /\ \/ Before(i) # NUL /\ Before(i) # "/"
              \/ i < len /\ str[i + 1] # "/"
        \/ /\ str[i] = "#"
           /\ \/ Before(i) # NUL /\ Before(i) # "/"
              \/ i < len
  IN IF len > 65535 THEN dimq_ERR.INVAL
     ELSE IF \E i \in 1..len : BadByte(i) THEN dimq_ERR.INVAL
     ELSE IF hier_count > TOPIC_HIERARCHY_LIMIT THEN dimq_ERR.INVAL
     ELSE dimq_ERR.SUCCESS

\* The main loop of dimq_topic_matches_sub2 with sub at position si and topic
\* at position ti (spos of the source is si - 1).  The value is the return
\* code and *result.
RECURSIVE MatchLoop(_, _, _, _)
MatchLoop(sub, topic, si, ti) ==
  LET S(i) == IF i \in 1..Len(sub) THEN sub[i] ELSE NUL
      T(i) == IF i \in 1..Len(topic) THEN topic[i] ELSE NUL
      Invalid == [rc |-> dimq_ERR.INVAL, result |-> FALSE]
      Matched == [rc |-> dimq_ERR.SUCCESS, result |-> TRUE]
      Unmatched == [rc |-> dimq_ERR.SUCCESS, result |-> FALSE]
      WildcardIn(from, to) == \E k \in from..to : topic[k] \in {"+", "#"}
      \* The end of the topic level that starts at ti: the next '/' or the NUL.
      LevelEnd ==
        IF \E k \in ti..Len(topic) : topic[k] = "/"
        THEN CHOOSE k \in ti..Len(topic) :
                topic[k] = "/" /\ \A j \in ti..(k - 1) : topic[j] # "/"
        ELSE Len(topic) + 1
  IN IF S(si) = NUL
     THEN \* behind the loop: the rest of the topic is searched for wildcards
          IF WildcardIn(ti, Len(topic)) THEN Invalid ELSE Unmatched
     ELSE IF T(ti) \in {"+", "#"} THEN Invalid
     ELSE IF S(si) # T(ti) \/ T(ti) = NUL
     THEN IF S(si) = "+"
          THEN IF si > 1 /\ S(si - 1) # "/" THEN Invalid
               ELSE IF S(si + 1) # NUL /\ S(si + 1) # "/" THEN Invalid
               ELSE IF WildcardIn(ti, LevelEnd - 1) THEN Invalid
               ELSE IF T(LevelEnd) = NUL /\ S(si + 1) = NUL THEN Matched
               ELSE MatchLoop(sub, topic, si + 1, LevelEnd)
          ELSE IF S(si) = "#"
          THEN IF si > 1 /\ S(si - 1) # "/" THEN Invalid
               ELSE IF S(si + 1) # NUL THEN Invalid
               ELSE IF WildcardIn(ti, Len(topic)) THEN Invalid
               ELSE Matched
          ELSE IF /\ T(ti) = NUL /\ si > 1 /\ S(si - 1) = "+"
                  /\ S(si) = "/" /\ S(si + 1) = "#"
          THEN Matched
          ELSE IF \E k \in si..Len(sub) : sub[k] = "#" /\ S(k + 1) # NUL THEN Invalid
          ELSE Unmatched
     ELSE IF T(ti + 1) = NUL /\ S(si + 1) = "/" /\ S(si + 2) = "#" /\ S(si + 3) = NUL
     THEN Matched
     ELSE IF S(si + 1) = NUL /\ T(ti + 1) = NUL THEN Matched
     ELSE IF T(ti + 1) = NUL /\ S(si + 1) = "+" /\ S(si + 2) = NUL
     THEN IF S(si) # "/" THEN Invalid ELSE Matched
     ELSE MatchLoop(sub, topic, si + 1, ti + 1)

\* dimq_topic_matches_sub2: empty strings are invalid; a filter and a topic
\* of which exactly one begins with '$' do not match.
dimq_topic_matches_sub2(sub, topic) ==
  IF sub = <<>> \/ topic = <<>> THEN [rc |-> dimq_ERR.INVAL, result |-> FALSE]
  ELSE IF (sub[1] = "$" /\ topic[1] # "$") \/ (topic[1] = "$" /\ sub[1] # "$")
  THEN [rc |-> dimq_ERR.SUCCESS, result |-> FALSE]
  ELSE MatchLoop(sub, topic, 1, 1)

(***************************************************************************)
(* The state machine.                                                      *)
(***************************************************************************)
\* The CONNECT packets of the model.
ConnectV311 ==
  [id |-> "c1", protocol_name |-> "MQTT", protocol_version |-> 4, clean_start |-> FALSE, session_expiry_interval |-> 0,
   username |-> "u1", maximum_packet_size |-> 0, max_qos |-> 2, will |-> FALSE,
   will_retain |-> FALSE, will_qos |-> 0, keepalive |-> 60, auth_method |-> "none"]

ConnectV5 ==
  [id |-> "c1", protocol_name |-> "MQTT", protocol_version |-> 5, clean_start |-> FALSE, session_expiry_interval |-> 60,
   username |-> "u2", maximum_packet_size |-> 1, max_qos |-> 1, will |-> TRUE,
   will_retain |-> FALSE, will_qos |-> 0, keepalive |-> 60, auth_method |-> "none"]

ConnectClean ==
  [id |-> "c1", protocol_name |-> "MQTT", protocol_version |-> 4, clean_start |-> TRUE, session_expiry_interval |-> 0,
   username |-> "u1", maximum_packet_size |-> 0, max_qos |-> 2, will |-> TRUE,
   will_retain |-> FALSE, will_qos |-> 0, keepalive |-> 60, auth_method |-> "none"]

\* An MQTT 5 client without a packet size limit: overlapping subscriptions
\* deliver a stored message to it once per subscription.
ConnectFlow ==
  [id |-> "c1", protocol_name |-> "MQTT", protocol_version |-> 5, clean_start |-> FALSE, session_expiry_interval |-> 60,
   username |-> "u1", maximum_packet_size |-> 0, max_qos |-> 2, will |-> FALSE,
   will_retain |-> FALSE, will_qos |-> 0, keepalive |-> 60, auth_method |-> "none"]

ConnectInputs == {ConnectV311, ConnectV5, ConnectClean}

\* CONNECT packets that meet the keepalive cap, carry a retained will or a
\* will above the listener's QoS, fail the password check, name an
\* authentication method, or carry another protocol name or version.
ConnectAttempts ==
  { ConnectV311, ConnectFlow,
    [ConnectV311 EXCEPT !.protocol_name = "MQIsdp", !.protocol_version = 3],
    [ConnectV311 EXCEPT !.protocol_name = "MQIsdp", !.protocol_version = 4],
    [ConnectV311 EXCEPT !.protocol_version = 6],
    [ConnectV311 EXCEPT !.protocol_name = "MQTX"],
    [ConnectV311 EXCEPT !.keepalive = 0],
    [ConnectFlow EXCEPT !.keepalive = 0],
    [ConnectClean EXCEPT !.will_retain = TRUE],
    [ConnectFlow EXCEPT !.will = TRUE, !.will_retain = TRUE],
    [ConnectFlow EXCEPT !.will = TRUE, !.will_qos = 2, !.max_qos = 1],
    [ConnectV311 EXCEPT !.username = "u3"],
    [ConnectV311 EXCEPT !.username = "u4"],
    [ConnectFlow EXCEPT !.auth_method = "granted"],
    [ConnectFlow EXCEPT !.auth_method = "challenge"],
    [ConnectFlow EXCEPT !.auth_method = "denied"],
    [ConnectFlow EXCEPT !.auth_method = "unknown"],
    [ConnectFlow EXCEPT !.auth_method = "failing"] }

\* How a destination is served: by the router (write-through, retain flag
\* cleared), or as a retained message whose caller runs the drain afterwards.
DestRouter == [retain |-> FALSE, update |-> TRUE]
DestRetained == [retain |-> TRUE, update |-> FALSE]

Dest(c, qos, m) == [c |-> c, qos |-> qos, retain |-> m.retain, update |-> m.update]

\* The matching subscriptions of one routing call: none, one, or two
\* overlapping subscriptions of the same session.
DestSeqs(cs) ==
  {<<>>}
  \cup { <<Dest(c, q, DestRouter)>> : c \in cs, q \in 1..2 }
  \cup { <<Dest(c, 0, DestRetained)>> : c \in cs }
  \cup { <<Dest(c, 1, DestRouter), Dest(c, 1, DestRouter)>> : c \in cs }

\* The subscriptions that a released inbound message is routed to.
RouteSeqs(cs) == {<<>>} \cup { <<Dest(c, q, DestRouter)>> : c \in cs, q \in 1..2 }

\* The packet identifiers the clients of the model use for their own publishes.
InMids == 1..NStores

Qos12Count(dests) == Len(SelectSeq(dests, LAMBDA d : d.qos > 0))

OutLen(cx) == Len(cx.msgs_out.inflight) + Len(cx.msgs_out.queued)

DestsWithinBounds(dests) ==
  \A i \in 1..Len(dests) :
     /\ ctx[dests[i].c].last_mid + Qos12Count(dests)
          <= ctx[dests[i].c].msgs_out.inflight_maximum * MaxMid
     /\ OutLen(ctx[dests[i].c]) + Len(dests)
          <= ctx[dests[i].c].msgs_out.inflight_maximum * MaxBacklog

Record(op, c, w, a) ==
  [op |-> op, c |-> c, rc |-> w.rc, out |-> w.out, promoted |-> w.promoted,
   sends |-> w.sends, arg |-> a]

Commit(op, c, w, a) ==
  /\ ctx' = w.ctx
  /\ store' = w.store
  /\ by_id' = w.by_id
  /\ last' = Record(op, c, w, a)
  /\ UNCHANGED <<config, now>>

Init ==
  /\ config = ConfigLimits
  /\ ctx = [c \in Contexts |-> FreeContext]
  /\ store = [s \in Stores |-> FreeStore]
  /\ by_id = {}
  /\ now = 0
  /\ last = [op |-> "init", c |-> 0, rc |-> dimq_ERR.SUCCESS, out |-> <<>>, promoted |-> <<>>,
             sends |-> <<>>, arg |-> 0]

\* A context without a connection and without a session is disused; the main
\* loop frees the disused contexts before it handles the next event.
Disused(c) == ctx[c].allocated /\ ~ctx[c].sock /\ c \notin by_id

NoDisused == \A c \in Contexts : ~Disused(c)

\* The packet identifiers in use: MaxMid for each slot of the inflight window.
Mids == 1..(config.max_inflight_messages * MaxMid)

\* A connection is accepted into a free context slot.
Accept(c) ==
  /\ NoDisused
  /\ ~ctx[c].allocated
  /\ \A d \in Contexts : d < c => ctx[d].allocated
  /\ \A d \in Contexts : ctx[d].allocated => ctx[d].state # dimq_cs.new
  /\ Commit("accept", c, [World EXCEPT !.ctx[c] = context__init], 0)

\* A CONNECT packet arrives; a failed CONNECT closes the connection.  The
\* step records the packet, and whether the context was registered and which
\* state it had when the handler returned.
Connect(c, p) ==
  /\ NoDisused
  /\ ctx[c].allocated /\ ctx[c].sock
  /\ ctx[c].state \in {dimq_cs.new, dimq_cs.active, dimq_cs.authenticating}
  /\ LET Closed(w) ==
           IF w.rc # dimq_ERR.SUCCESS
           THEN [do_disconnect(w, c) EXCEPT !.ctx[c].state = dimq_cs.disconnected]
           ELSE w
         Returned(w) ==
           Commit("connect", c, Closed(w),
                  [packet |-> p, registered |-> c \in w.by_id, state |-> w.ctx[c].state])
     IN Returned(handle__connect(World, c, p))

\* A message is stored and routed to its subscribers.
Publish(s, dests) ==
  /\ NoDisused
  /\ ~store[s].live
  /\ StoreKind(s).topic # NoTopic
  /\ DestsWithinBounds(dests)
  /\ Commit("publish", IF dests = <<>> THEN 0 ELSE dests[1].c,
            sub__messages_queue(db__message_store(World, s), s, dests),
            Len(dests))

\* One call of db__message_insert for the session of context c, online or
\* offline, by a caller that holds a reference to the stored message; an
\* outbound QoS > 0 message gets the next packet identifier of the session.
\* An inbound message carries the packet identifier the client gave it, here
\* the number of its store slot.  The step records the arguments of the call
\* and its return code.
MessageInsert(c, s, dir, qos, m) ==
  /\ NoDisused
  /\ ctx[c].allocated /\ c \in by_id
  /\ StoreKind(s).topic # NoTopic
  /\ Len(ctx[c].msgs_in.inflight) + Len(ctx[c].msgs_in.queued) + OutLen(ctx[c]) < MaxInserted
  /\ ctx[c].last_mid < MaxInserted
  /\ Len(store[s].dest_ids) < MaxInserted
  /\ LET mid == IF dir = dimq_md_in THEN s
                ELSE IF qos > 0 THEN dimq__mid_generate(World, c) ELSE 0
         Stored(w) == IF w.store[s].live THEN w ELSE db__message_store(w, s)
         Numbered(w) == IF dir = dimq_md_out /\ qos > 0
                        THEN [w EXCEPT !.ctx[c].last_mid = mid] ELSE w
         Called(w) ==
           db__message_insert(db__msg_store_ref_inc(Numbered(Stored(w)), s),
                              c, mid, dir, qos, m.retain, s, m.update)
         Returned(w) ==
           Commit("insert", c, SetRc(db__msg_store_ref_dec(w, s), w.rc),
                  [dir |-> dir, qos |-> qos, retain |-> m.retain, update |-> m.update,
                   store |-> s, mid |-> mid])
     IN Returned(Called(World))

\* The admission functions applied to the session of context c: the step
\* records the arguments and the answer.
ReadyForFlight(c, dir, qos) ==
  /\ ctx[c].allocated /\ c \in by_id
  /\ Commit("ready_for_flight", c, World,
            [dir |-> dir, qos |-> qos, result |-> db__ready_for_flight(World, c, dir, qos)])

ReadyForQueue(c, dir, qos) ==
  /\ ctx[c].allocated /\ c \in by_id
  /\ Commit("ready_for_queue", c, World,
            [dir |-> dir, qos |-> qos, result |-> db__ready_for_queue(World, c, qos, dir)])

\* A client publishes a QoS > 0 message that the broker holds in the inbound lists.
PublishIn(c, s, mid) ==
  /\ NoDisused
  /\ ctx[c].allocated /\ ctx[c].sock /\ ctx[c].state = dimq_cs.active
  /\ ~store[s].live
  /\ FirstWithMid(ctx[c].msgs_in.inflight, mid) = 0
  /\ FirstWithMid(ctx[c].msgs_in.queued, mid) = 0
  /\ Commit("publish_in", c,
            db__message_insert(db__message_store(World, s), c, mid, dimq_md_in,
                               StoreKind(s).qos, FALSE, s, FALSE),
            mid)

\* PUBACK (qos 1) or PUBCOMP (qos 2) from the client.
HandlePubackcomp(c, mid, qos) ==
  /\ NoDisused
  /\ ctx[c].allocated /\ ctx[c].sock /\ ctx[c].state = dimq_cs.active
  /\ Commit("pubackcomp", c,
            db__message_delete_outgoing(util__increment_send_quota(World, c), c, mid,
                                        dimq_ms.wait_for_pubcomp, qos),
            mid)

\* The client acknowledges a message it has received: PUBACK for a QoS 1
\* message that was published to it, PUBCOMP for a QoS 2 message after PUBREL.
Ack(c, mid, qos) ==
  /\ \E i \in 1..Len(ctx[c].msgs_out.inflight) :
        LET m == ctx[c].msgs_out.inflight[i]
        IN /\ m.mid = mid /\ m.qos = qos
           /\ m.state = IF qos = 1 THEN dimq_ms.wait_for_puback ELSE dimq_ms.wait_for_pubcomp
  /\ HandlePubackcomp(c, mid, qos)

\* PUBREC from the client.
HandlePubrec(c, mid) ==
  /\ NoDisused
  /\ mid <= ctx[c].last_mid + 1
  /\ ctx[c].allocated /\ ctx[c].sock /\ ctx[c].state = dimq_cs.active
  /\ LET Answered(w) ==
           IF w.rc = dimq_ERR.SUCCESS THEN SetRc(send__pubrel(w, c, mid), dimq_ERR.SUCCESS) ELSE w
     IN Commit("pubrec", c,
               Answered(db__message_update_outgoing(World, c, mid, dimq_ms.wait_for_pubcomp, 2)),
               mid)

\* PUBREL from the client.
HandlePubrel(c, mid, dests) ==
  /\ NoDisused
  /\ ctx[c].allocated /\ ctx[c].sock /\ ctx[c].state = dimq_cs.active
  /\ DestsWithinBounds(dests)
  /\ Commit("pubrel", c, db__message_release_incoming(World, c, mid, dests),
            mid)

RemoveIncoming(c, mid) ==
  /\ NoDisused
  /\ ctx[c].allocated /\ ctx[c].sock /\ ctx[c].state = dimq_cs.active
  /\ Commit("remove_incoming", c, db__message_remove_incoming(World, c, mid),
            mid)

WriteQueuedIn(c) ==
  /\ NoDisused
  /\ ctx[c].allocated
  /\ Commit("write_queued_in", c, db__message_write_queued_in(World, c), 0)

WriteQueuedOut(c) ==
  /\ NoDisused
  /\ ctx[c].allocated /\ ctx[c].msgs_out.queued # <<>>
  /\ Commit("write_queued_out", c, db__message_write_queued_out(World, c), 0)

WriteInflightOutAll(c) ==
  /\ NoDisused
  /\ ctx[c].allocated /\ ctx[c].msgs_out.inflight # <<>>
  /\ Commit("write_inflight_out_all", c, db__message_write_inflight_out_all(World, c), 0)

\* The connection of a session is lost or closed.
Disconnect(c) ==
  /\ NoDisused
  /\ ctx[c].allocated /\ ctx[c].sock
  /\ Commit("disconnect", c,
            [context__disconnect(World, c) EXCEPT !.ctx[c].state = dimq_cs.disconnected],
            0)

\* A session without a connection is deleted with its queues.
Cleanup(c) ==
  /\ ctx[c].allocated /\ ~ctx[c].sock
  /\ Commit("cleanup", c,
            [db__messages_delete(World, c, TRUE) EXCEPT !.by_id = @ \ {c}, !.ctx[c] = FreeContext],
            0)

Compact ==
  /\ NoDisused
  /\ \E s \in Stores : store[s].live /\ store[s].ref_count < 1
  /\ Commit("compact", 0, db__msg_store_compact(World), 0)

\* A second passes; time is only read by the expiry test of the per-entry send.
Tick ==
  /\ NoDisused
  /\ now < MaxTime
  /\ \E s \in Stores : store[s].live /\ store[s].message_expiry_time # 0
  /\ now' = now + 1
  /\ last' = [op |-> "tick", c |-> 0, rc |-> dimq_ERR.SUCCESS, out |-> <<>>, promoted |-> <<>>,
              sends |-> <<>>, arg |-> 0]
  /\ UNCHANGED <<config, ctx, store, by_id>>

\* The outbound message plane: delivery, acknowledgement, drains, expiry,
\* takeover and cleanup, under the configuration with queue limits.
Next ==
  \/ \E c \in Contexts : Accept(c)
  \/ \E c \in Contexts, p \in ConnectInputs : Connect(c, p)
  \/ \E s \in Stores, dests \in DestSeqs(by_id) : Publish(s, dests)
  \/ \E c \in Contexts, mid \in Mids, qos \in 1..2 : Ack(c, mid, qos)
  \/ \E c \in Contexts, mid \in Mids : HandlePubrec(c, mid)
  \/ \E c \in Contexts : WriteQueuedOut(c)
  \/ \E c \in Contexts : WriteInflightOutAll(c)
  \/ \E c \in Contexts : Disconnect(c)
  \/ \E c \in Contexts : Cleanup(c)
  \/ Tick

Spec == Init /\ [][Next]_vars

\* The inbound QoS 2 plane: inbound publishes, their release with routing,
\* and the removal of stores.
NextIn ==
  \/ \E c \in Contexts : Accept(c)
  \/ \E c \in Contexts, p \in ConnectInputs : Connect(c, p)
  \/ \E c \in Contexts, s \in Stores, mid \in InMids : PublishIn(c, s, mid)
  \/ \E c \in Contexts, mid \in InMids, dests \in RouteSeqs(by_id) : HandlePubrel(c, mid, dests)
  \/ \E c \in Contexts, mid \in InMids : RemoveIncoming(c, mid)
  \/ \E c \in Contexts : WriteQueuedIn(c)
  \/ \E c \in Contexts : Disconnect(c)
  \/ \E c \in Contexts : Cleanup(c)
  \/ Compact

SpecIn == Init /\ [][NextIn]_vars

\* Flow control of one session with an inflight window of two and no queue limit.
InitFlow ==
  /\ config = ConfigFlow
  /\ ctx = [c \in Contexts |-> FreeContext]
  /\ store = [s \in Stores |-> FreeStore]
  /\ by_id = {}
  /\ now = 0
  /\ last = [op |-> "init", c |-> 0, rc |-> dimq_ERR.SUCCESS, out |-> <<>>, promoted |-> <<>>,
             sends |-> <<>>, arg |-> 0]

NextFlow ==
  \/ \E c \in Contexts : Accept(c)
  \/ \E c \in Contexts : Connect(c, ConnectFlow)
  \/ \E s \in Stores, dests \in DestSeqs(by_id) : Publish(s, dests)
  \/ \E c \in Contexts, mid \in Mids, qos \in 1..2 : Ack(c, mid, qos)

SpecFlow == InitFlow /\ [][NextFlow]_vars

\* Acknowledgements with any packet identifier, whether or not the session
\* holds a message with it.
NextAck ==
  \/ \E c \in Contexts : Accept(c)
  \/ \E c \in Contexts : Connect(c, ConnectFlow)
  \/ \E s \in Stores, dests \in DestSeqs(by_id) : Publish(s, dests)
  \/ \E c \in Contexts, mid \in Mids, qos \in 1..2 : HandlePubackcomp(c, mid, qos)

SpecAck == Init /\ [][NextAck]_vars

\* Delivery to one session with a window of two while stored messages expire.
InitOrder ==
  /\ config = ConfigOrder
  /\ ctx = [c \in Contexts |-> FreeContext]
  /\ store = [s \in Stores |-> FreeStore]
  /\ by_id = {}
  /\ now = 0
  /\ last = [op |-> "init", c |-> 0, rc |-> dimq_ERR.SUCCESS, out |-> <<>>, promoted |-> <<>>,
             sends |-> <<>>, arg |-> 0]

NextOrder ==
  \/ \E c \in Contexts : Accept(c)
  \/ \E c \in Contexts : Connect(c, ConnectFlow)
  \/ \E s \in Stores, dests \in DestSeqs(by_id) : Publish(s, dests)
  \/ \E c \in Contexts, mid \in Mids, qos \in 1..2 : Ack(c, mid, qos)
  \/ \E c \in Contexts : Cleanup(c)
  \/ Tick

SpecOrder == InitOrder /\ [][NextOrder]_vars

\* CONNECT attempts of every outcome on a broker with a keepalive cap and
\* without retained messages, while messages are delivered.
InitConnect ==
  /\ config = ConfigConnect
  /\ ctx = [c \in Contexts |-> FreeContext]
  /\ store = [s \in Stores |-> FreeStore]
  /\ by_id = {}
  /\ now = 0
  /\ last = [op |-> "init", c |-> 0, rc |-> dimq_ERR.SUCCESS, out |-> <<>>, promoted |-> <<>>,
             sends |-> <<>>, arg |-> 0]

NextConnect ==
  \/ \E c \in Contexts : Accept(c)
  \/ \E c \in Contexts, p \in ConnectAttempts : Connect(c, p)
  \/ \E s \in Stores, dests \in DestSeqs(by_id) : Publish(s, dests)
  \/ \E c \in Contexts : Disconnect(c)
  \/ \E c \in Contexts : Cleanup(c)

SpecConnect == InitConnect /\ [][NextConnect]_vars

\* Calls of message_insert alone, without acknowledgements: a window of one
\* and a queue of one without byte limits, with and without queueing of
\* QoS 0 messages, on the session of the first context, which connects,
\* goes offline and is deleted.
InitInsert ==
  /\ config \in {[ConfigLimits EXCEPT !.max_inflight_bytes = 0, !.queue_qos0_messages = b] :
                   b \in BOOLEAN}
  /\ ctx = [c \in Contexts |-> FreeContext]
  /\ store = [s \in Stores |-> FreeStore]
  /\ by_id = {}
  /\ now = 0
  /\ last = [op |-> "init", c |-> 0, rc |-> dimq_ERR.SUCCESS, out |-> <<>>, promoted |-> <<>>,
             sends |-> <<>>, arg |-> 0]

NextInsert ==
  \/ Accept(1)
  \/ \E p \in {ConnectV311, ConnectFlow} : Connect(1, p)
  \/ \E s \in Stores, dir \in {dimq_md_in, dimq_md_out}, qos \in 0..2,
        m \in {DestRouter, DestRetained} :
        MessageInsert(1, s, dir, qos, m)
  \/ Disconnect(1)
  \/ Cleanup(1)

SpecInsert == InitInsert /\ [][NextInsert]_vars

\* The admission functions under every combination of a zero and a non-zero
\* value of the four limits, on a session that receives messages of one and
\* of two bytes and goes offline.
InitAdmit ==
  /\ config \in {[ConfigLimits EXCEPT !.max_inflight_messages = m, !.max_inflight_bytes = mb,
                                      !.max_queued_messages = q, !.max_queued_bytes = qb,
                                      !.queue_qos0_messages = b] :
                   m \in 0..1, mb \in 0..1, q \in 0..1, qb \in 0..1, b \in BOOLEAN}
  /\ ctx = [c \in Contexts |-> FreeContext]
  /\ store = [s \in Stores |-> FreeStore]
  /\ by_id = {}
  /\ now = 0
  /\ last = [op |-> "init", c |-> 0, rc |-> dimq_ERR.SUCCESS, out |-> <<>>, promoted |-> <<>>,
             sends |-> <<>>, arg |-> 0]

NextAdmit ==
  \/ Accept(1)
  \/ Connect(1, ConnectV311)
  \/ \E s \in Stores, qos \in 0..1 : MessageInsert(1, s, dimq_md_out, qos, DestRetained)
  \/ Disconnect(1)
  \/ \E dir \in {dimq_md_in, dimq_md_out}, qos \in 0..2 : ReadyForFlight(1, dir, qos)
  \/ \E dir \in {dimq_md_in, dimq_md_out}, qos \in 0..2 : ReadyForQueue(1, dir, qos)

SpecAdmit == InitAdmit /\ [][NextAdmit]_vars

\* A client publishes message s at QoS 2: the message is stored with the qos
\* of the PUBLISH packet and inserted into the inbound lists of the session.
PublishQos2In(c, s, mid) ==
  /\ NoDisused
  /\ ctx[c].allocated /\ ctx[c].sock /\ ctx[c].state = dimq_cs.active
  /\ ~store[s].live
  /\ FirstWithMid(ctx[c].msgs_in.inflight, mid) = 0
  /\ FirstWithMid(ctx[c].msgs_in.queued, mid) = 0
  /\ LET Stored(w) == [w EXCEPT !.store[s].qos = 2]
     IN Commit("publish_in", c,
               db__message_insert(Stored(db__message_store(World, s)), c, mid, dimq_md_in,
                                  2, FALSE, s, FALSE),
               mid)

\* The inbound plane with every published message at QoS 2, so that QoS 2
\* messages wait in the inbound queue behind a full inflight list.
NextRelease ==
  \/ \E c \in Contexts : Accept(c)
  \/ \E c \in Contexts, p \in ConnectInputs : Connect(c, p)
  \/ \E c \in Contexts, s \in Stores, mid \in InMids : PublishQos2In(c, s, mid)
  \/ \E c \in Contexts, mid \in InMids, dests \in RouteSeqs(by_id) : HandlePubrel(c, mid, dests)
  \/ \E c \in Contexts : Disconnect(c)
  \/ \E c \in Contexts : Cleanup(c)
  \/ Compact

SpecRelease == Init /\ [][NextRelease]_vars

(***************************************************************************)
(* The topic functions applied to filters and topics over the bytes that   *)
(* they tell apart: a letter, the level separator, the two wildcards and   *)
(* the '$' of the system topics.                                           *)
(***************************************************************************)
TopicBytes == {"a", "/", "+", "#", "$"}

InitTopic ==
  /\ config = ConfigLimits
  /\ ctx = [c \in Contexts |-> FreeContext]
  /\ store = [s \in Stores |-> FreeStore]
  /\ by_id = {}
  /\ now = 0
  /\ \E sub \in UNION {[1..n -> TopicBytes] : n \in 0..MaxSubLen},
        topic \in UNION {[1..n -> TopicBytes] : n \in 0..MaxTopicLen} :
        last = [op |-> "init", c |-> 0, rc |-> dimq_ERR.SUCCESS, out |-> <<>>,
                promoted |-> <<>>, sends |-> <<>>,
                arg |-> [sub |-> sub, topic |-> topic, result |-> FALSE]]

\* A call of one of the topic functions: rc is its return code and result
\* the value the matcher stores through its result pointer.
TopicCall(op, rc, result) ==
  /\ last' = [last EXCEPT !.op = op, !.rc = rc, !.arg.result = result]
  /\ UNCHANGED <<config, ctx, store, by_id, now>>

PubTopicCheck == TopicCall("pub_topic_check", dimq_pub_topic_check(last.arg.topic), FALSE)

SubTopicCheck == TopicCall("sub_topic_check", dimq_sub_topic_check(last.arg.sub), FALSE)

SubTopicCheck2 ==
  TopicCall("sub_topic_check2", dimq_sub_topic_check2(last.arg.sub, Len(last.arg.sub)), FALSE)

TopicMatchesSub ==
  TopicCall("topic_matches_sub",
            dimq_topic_matches_sub2(last.arg.sub, last.arg.topic).rc,
            dimq_topic_matches_sub2(last.arg.sub, last.arg.topic).result)

NextTopic ==
  \/ PubTopicCheck
  \/ SubTopicCheck
  \/ SubTopicCheck2
  \/ TopicMatchesSub

SpecTopic == InitTopic /\ [][NextTopic]_vars

(***************************************************************************)
(* Properties.  The variable last holds the operation of the latest step:  *)
(* its name, the context it ran on, its argument (a packet identifier, or  *)
(* the number of destinations of a publish), its return code, the packets  *)
(* it emitted, the entries it promoted and its per-entry sends.            *)
(***************************************************************************)
CountersExact(md) ==
  LET all == md.inflight \o md.queued
  IN /\ md.msg_count = Len(all)
     /\ md.msg_bytes = SumPayload(all, store)
     /\ md.msg_count12 = Len(SelectQos12(all))
     /\ md.msg_bytes12 = SumPayload(SelectQos12(all), store)

AllEntries(cx) ==
  cx.msgs_in.inflight \o cx.msgs_in.queued \o cx.msgs_out.inflight \o cx.msgs_out.queued

RECURSIVE RefsUpTo(_, _)
RefsUpTo(s, c) == IF c = 0 THEN 0 ELSE RefsUpTo(s, c - 1) + CountRefs(AllEntries(ctx[c]), s)

\* The number of client messages, over every context, that reference store s.
Refs(s) == RefsUpTo(s, NCtx)

\* C1: in every session and each direction, msg_count, msg_bytes, msg_count12
\* and msg_bytes12 equal what the inflight and queued lists hold, after every
\* operation, the ACL purge of the CONNECT handler included.
C1_CountersMatchLists ==
  \A c \in Contexts : CountersExact(ctx[c].msgs_in) /\ CountersExact(ctx[c].msgs_out)

\* C2: when the outbound inflight list holds exactly inflight_maximum (> 0)
\* entries and queued is not empty, a successful acknowledgement of any one
\* inflight mid promotes exactly one entry, the head of queued.
C2_AckPromotesOne ==
  [][\A c \in Contexts :
       ( /\ last'.op = "pubackcomp" /\ last'.c = c /\ last'.rc = dimq_ERR.SUCCESS
         /\ ctx[c].msgs_out.inflight_maximum > 0
         /\ Len(ctx[c].msgs_out.inflight) = ctx[c].msgs_out.inflight_maximum
         /\ ctx[c].msgs_out.queued # <<>>
         /\ HasMid(ctx[c].msgs_out.inflight, last'.arg) )
       => /\ last'.promoted = <<Head(ctx[c].msgs_out.queued).mid>>
          /\ ctx'[c].msgs_out.queued = Tail(ctx[c].msgs_out.queued)]_vars

\* C3: for a session with a non-zero inflight_maximum the outbound inflight
\* list never holds more than inflight_maximum messages (counted here are the
\* QoS >= 1 entries, the ones the window admits one by one).
C3_InflightWithinMaximum ==
  \A c \in Contexts :
     ctx[c].msgs_out.inflight_maximum > 0
     => Len(SelectQos12(ctx[c].msgs_out.inflight)) <= ctx[c].msgs_out.inflight_maximum

\* C4: after message_delete_outgoing(mid) returned success, neither outbound
\* list of the session holds an entry with that mid.
C4_DeletedMidIsGone ==
  (last.op = "pubackcomp" /\ last.rc = dimq_ERR.SUCCESS)
  => /\ ~HasMid(ctx[last.c].msgs_out.inflight, last.arg)
     /\ ~HasMid(ctx[last.c].msgs_out.queued, last.arg)

\* C5: between operations, the ref_count of every stored message equals the
\* number of client messages, over all sessions, directions and lists, that
\* reference it.
C5_RefCountExact ==
  \A s \in Stores : store[s].live => store[s].ref_count = Refs(s)

\* C5 witness: a takeover has moved a session that holds two references to one
\* stored message.
C5_Witness ==
  /\ last.op = "connect" /\ last.rc = dimq_ERR.SUCCESS
  /\ \E s \in Stores : store[s].live /\ store[s].ref_count = 2 /\ Refs(s) = 2

\* C6: no operation removes a stored message from the pool while a client
\* message of any session still references it: every referenced store is in
\* the pool.
C6_ReferencedStoreIsLive ==
  \A c \in Contexts : \A i \in 1..Len(AllEntries(ctx[c])) :
     store[AllEntries(ctx[c])[i].store].live

\* C6 witness: the compaction has removed an unreferenced stored message
\* while another stored message is still referenced.
C6_Witness ==
  /\ last.op = "compact"
  /\ \E s \in Stores : ~store[s].live
  /\ \E s \in Stores : store[s].live /\ Refs(s) > 0

Clip(n) == IF n < 0 THEN 0 ELSE n

\* C7: for a session with inflight_maximum > 0 the outbound inflight_quota is
\* inflight_maximum minus the number of outbound QoS >= 1 messages in the
\* exchange window, a credit that does not go below zero; the window is read
\* either as the inflight list or as the inflight and queued lists together.
C7_QuotaMatchesWindow ==
  \A c \in Contexts :
     LET md == ctx[c].msgs_out
         inflight12 == Len(SelectQos12(md.inflight))
         queued12 == Len(SelectQos12(md.queued))
     IN md.inflight_maximum > 0
        => \/ md.inflight_quota = Clip(md.inflight_maximum - inflight12)
           \/ md.inflight_quota = Clip(md.inflight_maximum - inflight12 - queued12)

\* C8: when the per-entry send of a QoS 1 or QoS 2 message in state
\* publish_qos1 / publish_qos2 gets OversizePacket from send__publish, the
\* message is removed and inflight_quota increases by one.
C8_OversizeReturnsQuota ==
  \A i \in 1..Len(last.sends) :
     LET e == last.sends[i]
     IN ( /\ e.state \in {dimq_ms.publish_qos1, dimq_ms.publish_qos2}
          /\ ~e.expired
          /\ e.publish_rc = dimq_ERR.OVERSIZE_PACKET )
        => /\ e.len[2] = e.len[1] - 1
           /\ e.quota[2] = e.quota[1] + 1

C10_FurtherInsertIsNoOp ==
  [][\A c \in Contexts, s \in Stores :
       ( /\ last'.op = "publish" /\ last'.c = c /\ last'.arg = 2
         /\ ctx[c].protocol # dimq_p.mqtt5
         /\ config.allow_duplicate_messages = FALSE
         /\ ~store[s].live
         /\ LET once == sub__messages_queue(db__message_store(World, s), s,
                                            <<Dest(c, 1, DestRouter)>>)
            IN \E k \in 1..Len(once.store[s].dest_ids) :
                  once.store[s].dest_ids[k] = ctx[c].id )
       => LET once == sub__messages_queue(db__message_store(World, s), s,
                                          <<Dest(c, 1, DestRouter)>>)
          IN /\ last'.rc = dimq_ERR.SUCCESS
             /\ ~store'[s].live \/ ctx'[c].msgs_out = once.ctx[c].msgs_out
             /\ ~store'[s].live \/ store'[s] = once.store[s]]_vars

\* C10 witness: a stored message was routed twice to a session that is not
\* MQTT 5 and the session holds it once.
C10_Witness ==
  /\ last.op = "publish" /\ last.arg = 2 /\ last.rc = dimq_ERR.SUCCESS
  /\ ctx[last.c].protocol # dimq_p.mqtt5
  /\ \E s \in Stores : /\ store[s].live /\ store[s].ref_count = 1
                       /\ store[s].dest_ids = <<ctx[last.c].id>>
                       /\ CountRefs(AllEntries(ctx[last.c]), s) = 1
(***************************************************************************)
(* Takeover.  A CONNECT step of context c takes over the session of the    *)
(* registered context f and continues it when the packet has              *)
(* clean_start = false and the old session has an expiry interval.         *)
(***************************************************************************)
ContinuedTakeover(c, f) ==
  /\ last'.op = "connect" /\ last'.c = c /\ last'.rc = dimq_ERR.SUCCESS
  /\ f \in by_id /\ f # c
  /\ ctx'[c].clean_start = FALSE /\ ctx[f].session_expiry_interval > 0

Emitted(out, type, c, mid) ==
  \E k \in 1..Len(out) : out[k].type = type /\ out[k].c = c /\ out[k].mid = mid

\* The entry's message has expired, or the user of the new connection may not read it.
ExpiredOrDenied(m, c) ==
  \/ store[m.store].message_expiry_time # 0 /\ now > store[m.store].message_expiry_time
  \/ ctx'[c].username = "u2" /\ store[m.store].topic = "t2"

Oversize(m, c) ==
  ctx'[c].maximum_packet_size > 0 /\ store[m.store].payloadlen > ctx'[c].maximum_packet_size

\* C11: on a takeover that continues the session, an outbound inflight QoS 2
\* message that waited for PUBCOMP is never published again, and unless it
\* has expired or is purged by the ACL check, the CONNECT step sends PUBREL
\* for it and leaves it waiting for PUBCOMP in the new session.
C11_PubcompResumesWithPubrel ==
  [][\A c \in Contexts, f \in Contexts :
       ContinuedTakeover(c, f) =>
         \A i \in 1..Len(ctx[f].msgs_out.inflight) :
           LET m == ctx[f].msgs_out.inflight[i]
           IN (m.qos = 2 /\ m.state = dimq_ms.wait_for_pubcomp) =>
                /\ ~Emitted(last'.out, "PUBLISH", c, m.mid)
                /\ ~ExpiredOrDenied(m, c) =>
                      /\ Emitted(last'.out, "PUBREL", c, m.mid)
                      /\ \E j \in 1..Len(ctx'[c].msgs_out.inflight) :
                            /\ ctx'[c].msgs_out.inflight[j].mid = m.mid
                            /\ ctx'[c].msgs_out.inflight[j].state = dimq_ms.wait_for_pubcomp]_vars

C11_Witness ==
  /\ last.op = "connect" /\ last.rc = dimq_ERR.SUCCESS
  /\ \E k \in 1..Len(last.out) : last.out[k].type = "PUBREL"
  /\ \E j \in 1..Len(ctx[last.c].msgs_out.inflight) :
        /\ ctx[last.c].msgs_out.inflight[j].qos = 2
        /\ ctx[last.c].msgs_out.inflight[j].state = dimq_ms.wait_for_pubcomp

\* C12: on a takeover that continues the session, an outbound QoS 2 message
\* waiting for PUBREC, or QoS 1 message waiting for PUBACK, was sent with
\* dup set; unless it has expired, is purged by the ACL check or exceeds the
\* new connection's packet size, it is in the new session's inflight list
\* with dup still set and it is published again with the duplicate flag.
C12_SentMessagesRetransmitAsDup ==
  [][\A c \in Contexts, f \in Contexts :
       ContinuedTakeover(c, f) =>
         \A i \in 1..Len(ctx[f].msgs_out.inflight) :
           LET m == ctx[f].msgs_out.inflight[i]
           IN ((m.qos = 2 /\ m.state = dimq_ms.wait_for_pubrec)
                 \/ (m.qos = 1 /\ m.state = dimq_ms.wait_for_puback)) =>
                /\ m.dup = TRUE
                /\ ~(ExpiredOrDenied(m, c) \/ Oversize(m, c)) =>
                      /\ \E k \in 1..Len(last'.out) :
                            /\ last'.out[k].type = "PUBLISH" /\ last'.out[k].c = c
                            /\ last'.out[k].mid = m.mid /\ last'.out[k].dup = TRUE
                      /\ \E j \in 1..Len(ctx'[c].msgs_out.inflight) :
                            /\ ctx'[c].msgs_out.inflight[j].mid = m.mid
                            /\ ctx'[c].msgs_out.inflight[j].qos = m.qos
                            /\ ctx'[c].msgs_out.inflight[j].dup = TRUE
                            /\ ctx'[c].msgs_out.inflight[j].state = m.state]_vars

C12_Witness ==
  /\ last.op = "connect" /\ last.rc = dimq_ERR.SUCCESS
  /\ \E k \in 1..Len(last.out) :
        /\ last.out[k].type = "PUBLISH" /\ last.out[k].dup = TRUE
        /\ \E j \in 1..Len(ctx[last.c].msgs_out.inflight) :
              /\ ctx[last.c].msgs_out.inflight[j].mid = last.out[k].mid
              /\ ctx[last.c].msgs_out.inflight[j].qos = 2
              /\ ctx[last.c].msgs_out.inflight[j].state = dimq_ms.wait_for_pubrec
              /\ ctx[last.c].msgs_out.inflight[j].dup = TRUE

(***************************************************************************)
(* The client-id registry.                                                 *)
(***************************************************************************)
\* C13: the registry holds at most one session per client id: two registered
\* contexts never carry the same id, so the session a CONNECT installs has
\* replaced the one that was registered under its id.
C13_OneSessionPerClientId ==
  \A a \in by_id : \A b \in by_id : ctx[a].id = ctx[b].id => a = b

\* A CONNECT has installed a session under the id of a session that was
\* registered: the new one is in the registry, the old one has left it.
C13_Witness ==
  /\ last.op = "connect" /\ last.rc = dimq_ERR.SUCCESS
  /\ last.c \in by_id
  /\ \E f \in Contexts : /\ f # last.c /\ ctx[f].allocated
                          /\ ctx[f].state = dimq_cs.duplicate /\ f \notin by_id

(***************************************************************************)
(* Order.  The packet identifiers of a session's outbound QoS 1 and 2      *)
(* messages are generated one after the other, one for each insert, so for *)
(* two such entries the smaller identifier is the earlier submission.      *)
(***************************************************************************)
SubmittedBefore(a, b) == a.mid > 0 /\ b.mid > 0 /\ a.mid < b.mid

\* C14: two entries that are in the outbound inflight list of a session at
\* the same time stand in the order of their submission: no entry stands
\* behind an entry that was submitted after it.
C14_InflightInSubmissionOrder ==
  \A c \in Contexts :
    \A i \in 1..Len(ctx[c].msgs_out.inflight) : \A j \in 1..Len(ctx[c].msgs_out.inflight) :
       i < j => ~SubmittedBefore(ctx[c].msgs_out.inflight[j], ctx[c].msgs_out.inflight[i])

\* The context that held the session of c before the step: c itself, or the
\* registered context that a CONNECT on c takes the lists from.
SessionBefore(c) ==
  IF c \notin by_id /\ (\E f \in by_id : ctx[f].id = ctx'[c].id)
  THEN CHOOSE f \in by_id : ctx[f].id = ctx'[c].id
  ELSE c

PositionOf(list, mid) == CHOOSE i \in 1..Len(list) : list[i].mid = mid

C16_DrainOnlyWhenActive ==
  [][\A k \in 1..Len(last'.out) :
       last'.out[k].type \in {"PUBLISH", "PUBREL"} =>
         /\ ctx'[last'.out[k].c].state = dimq_cs.active
         /\ ctx'[last'.out[k].c].sock = TRUE
         /\ last'.op = "connect" =>
              /\ ctx[last'.out[k].c].state = dimq_cs.new
              /\ \E j \in 1..(k - 1) : /\ last'.out[j].type = "CONNACK"
                                        /\ last'.out[j].c = last'.out[k].c
    ]_vars

\* A drain has run on a session without a socket that holds an inflight
\* message waiting for its PUBLISH, and has emitted nothing.
C16_Witness ==
  /\ last.op \in {"write_inflight_out_all", "publish"}
  /\ last.c \in Contexts
  /\ ctx[last.c].sock = FALSE /\ ctx[last.c].state # dimq_cs.active
  /\ \E i \in 1..Len(ctx[last.c].msgs_out.inflight) :
        IsPublishState(ctx[last.c].msgs_out.inflight[i].state)
  /\ last.out = <<>>

\* The CONNECT step on context c: the state before it is ctx[c].state, the
\* state and the registration when the handler returned are in last'.arg.
ConnectStep(c) == last'.op = "connect" /\ last'.c = c

Connacked(out, c, reason_code) ==
  \E k \in 1..Len(out) :
     /\ out[k].type = "CONNACK" /\ out[k].c = c
     /\ out[k].reason_code = reason_code

C18_RefusalIsAnnounced ==
  [][\A c \in Contexts :
       (ConnectStep(c) /\ ctx[c].state = dimq_cs.new /\ last'.rc # dimq_ERR.SUCCESS) =>
         \E k \in 1..Len(last'.out) :
            /\ last'.out[k].type = "CONNACK" /\ last'.out[k].c = c
            /\ last'.out[k].reason_code # CONNACK.ACCEPTED
    ]_vars

\* C19: when the CONNECT handler returns an error for a session that was in
\* state new, the session is not in the registry and is not active.
C19_FailedConnectInstallsNothing ==
  [][\A c \in Contexts :
       (ConnectStep(c) /\ ctx[c].state = dimq_cs.new /\ last'.rc # dimq_ERR.SUCCESS) =>
         last'.arg.registered = FALSE /\ last'.arg.state # dimq_cs.active
    ]_vars

\* C20: without retain_available, a CONNECT with a retained will fails after
\* a CONNACK with RetainNotSupported to an MQTT 5 client and with
\* NotAuthorized to a client of an earlier version.
C20_RetainedWillIsRefused ==
  [][\A c \in Contexts :
       (/\ ConnectStep(c) /\ ctx[c].state = dimq_cs.new
        /\ last'.arg.packet.will /\ last'.arg.packet.will_retain
        /\ config.retain_available = FALSE) =>
         /\ last'.rc # dimq_ERR.SUCCESS
         /\ Connacked(last'.out, c,
                      IF last'.arg.packet.protocol_version = PROTOCOL.VERSION_v5
                      THEN MQTT_RC.RETAIN_NOT_SUPPORTED
                      ELSE CONNACK.REFUSED_NOT_AUTHORIZED)
    ]_vars

\* C21: a CONNECT on a session in state new whose protocol name is not a
\* known one, or whose version is not one supported under its name, fails
\* after a CONNACK refusing the protocol version has been emitted.
C21_BadProtocolIsRefused ==
  [][\A c \in Contexts :
       (/\ ConnectStep(c) /\ ctx[c].state = dimq_cs.new
        /\ \/ last'.arg.packet.protocol_name \notin {PROTOCOL.NAME_v31, PROTOCOL.NAME}
           \/ /\ last'.arg.packet.protocol_name = PROTOCOL.NAME_v31
              /\ last'.arg.packet.protocol_version # PROTOCOL.VERSION_v31
           \/ /\ last'.arg.packet.protocol_name = PROTOCOL.NAME
              /\ last'.arg.packet.protocol_version
                   \notin {PROTOCOL.VERSION_v311, PROTOCOL.VERSION_v5}) =>
         /\ last'.rc # dimq_ERR.SUCCESS
         /\ Connacked(last'.out, c, CONNACK.REFUSED_PROTOCOL_VERSION)
    ]_vars

\* The latest step is a call of the matcher on a non-empty filter and a
\* non-empty topic.
Matching ==
  last.op = "topic_matches_sub" /\ last.arg.sub # <<>> /\ last.arg.topic # <<>>

HasWildcard(str) == \E i \in 1..Len(str) : str[i] \in {"+", "#"}

C23_WildcardInTopicIsInvalid ==
  (/\ Matching
   /\ (last.arg.sub[1] = "$") <=> (last.arg.topic[1] = "$")
   /\ HasWildcard(last.arg.topic)) =>
     last.rc = dimq_ERR.INVAL

\* A '+' with a neighbour that is not '/', or a '#' that is not the last
\* byte or stands behind a byte that is not '/'.
MisplacedWildcard(str) ==
  \E i \in 1..Len(str) :
     \/ /\ str[i] = "+"
        /\ \/ i > 1 /\ str[i - 1] # "/"
           \/ i < Len(str) /\ str[i + 1] # "/"
     \/ /\ str[i] = "#"
        /\ \/ i < Len(str)
           \/ i > 1 /\ str[i - 1] # "/"

\* C24: each of the two subscribe-filter checks returns the invalid-input
\* code exactly for the filters with a misplaced wildcard, and success for
\* all others.
C24_SubCheckRejectsMisplacedWildcards ==
  last.op \in {"sub_topic_check", "sub_topic_check2"} =>
     /\ last.rc \in {dimq_ERR.INVAL, dimq_ERR.SUCCESS}
     /\ last.rc = dimq_ERR.INVAL <=> MisplacedWildcard(last.arg.sub)

\* The explicit-length check has rejected a filter whose only fault is a '#'
\* behind a byte that is not '/'.
C24_Witness ==
  /\ last.op = "sub_topic_check2" /\ last.rc = dimq_ERR.INVAL
  /\ Len(last.arg.sub) > 1
  /\ last.arg.sub[Len(last.arg.sub)] = "#"
  /\ last.arg.sub[Len(last.arg.sub) - 1] = "a"
  /\ \A i \in 1..(Len(last.arg.sub) - 1) : last.arg.sub[i] \notin {"+", "#"}

\* C25: with a queue limit and an inflight window above zero, after any
\* sequence of message_insert calls without acknowledgements a session holds
\* at most inflight_maximum + max_queued_messages outbound messages.
C25_OutboundWithinWindowAndQueue ==
  \A c \in Contexts :
     (/\ ctx[c].allocated
      /\ config.max_queued_messages > 0
      /\ ctx[c].msgs_out.inflight_maximum > 0) =>
        OutLen(ctx[c]) <= ctx[c].msgs_out.inflight_maximum + config.max_queued_messages

\* The message_insert step on context c; its arguments are in last'.arg.
InsertStep(c) == last'.op = "insert" /\ last'.c = c

\* The call finds the client id among the clients the stored message has
\* been delivered to, and returns without inserting.
AlreadyDelivered(c, a) ==
  /\ ctx[c].protocol # dimq_p.mqtt5 /\ config.allow_duplicate_messages = FALSE
  /\ a.dir = dimq_md_out /\ a.retain = FALSE
  /\ store[a.store].live /\ InDestIds(store[a.store].dest_ids, ctx[c].id)

\* C27: message_insert with qos above 0 on an online session that is not
\* ready for flight but ready for queue appends the message to the queued
\* list in state queued and returns 2, in either direction and with or
\* without update.
C27_QueuedInsertReturnsTwo ==
  [][\A c \in Contexts :
       (/\ InsertStep(c) /\ ctx[c].sock /\ last'.arg.qos # 0
        /\ ~AlreadyDelivered(c, last'.arg)
        /\ ~db__ready_for_flight(World, c, last'.arg.dir, last'.arg.qos)
        /\ db__ready_for_queue(World, c, last'.arg.qos, last'.arg.dir)) =>
          /\ last'.rc = RC_DROPPED
          /\ LET before == MsgData(World, c, last'.arg.dir).queued
                 after == IF last'.arg.dir = dimq_md_out THEN ctx'[c].msgs_out.queued
                          ELSE ctx'[c].msgs_in.queued
             IN /\ Len(after) = Len(before) + 1
                /\ after[Len(after)].state = dimq_ms.queued
                /\ after[Len(after)].mid = last'.arg.mid
    ]_vars

\* The world with other values of the inputs of ready_for_flight that are
\* neither byte counters nor byte limits: the length of the packet queue, the
\* credit and the message counts of the direction.
OtherCounts(c, dir, a) ==
  LET md == [MsgData(World, c, dir) EXCEPT !.inflight_quota = a.quota, !.msg_count = a.count,
                                           !.msg_count12 = a.count12]
  IN SetMsgData([World EXCEPT !.ctx[c].out_packet_count = a.packets], c, dir, md)

\* The latest step is a call of ready_for_flight for a direction whose
\* inflight window is unlimited.
UnlimitedFlight ==
  /\ last.op = "ready_for_flight"
  /\ MsgData(World, last.c, last.arg.dir).inflight_maximum = 0

\* C26 (as stated): with inflight_maximum = 0 the answer of ready_for_flight,
\* for any qos and direction, is the same for every length of the packet
\* queue, every credit and every message count.
C26_UnlimitedWindowReadsBytesOnly ==
  UnlimitedFlight =>
    \A a \in [packets : 0..2, quota : 0..2, count : 0..2, count12 : 0..2] :
       db__ready_for_flight(OtherCounts(last.c, last.arg.dir, a), last.c, last.arg.dir,
                            last.arg.qos) = last.arg.result

\* C26 (amended): with inflight_maximum = 0 the answer of ready_for_flight
\* for qos 1 and 2, in either direction, is a function of msg_bytes12 and
\* max_inflight_bytes alone: true exactly when the byte limit is zero or
\* msg_bytes12 is below it.
C26_UnlimitedWindowReadsBytesOnlyAboveQos0 ==
  (UnlimitedFlight /\ last.arg.qos > 0) =>
    /\ last.arg.result =
         (\/ config.max_inflight_bytes = 0
          \/ MsgData(World, last.c, last.arg.dir).msg_bytes12 < config.max_inflight_bytes)
    /\ \A a \in [packets : 0..2, quota : 0..2, count : 0..2, count12 : 0..2] :
          db__ready_for_flight(OtherCounts(last.c, last.arg.dir, a), last.c, last.arg.dir,
                               last.arg.qos) = last.arg.result

\* A QoS 1 message is refused by the byte limit alone: the window is
\* unlimited and the queue limits are zero.
C26_Witness ==
  /\ UnlimitedFlight /\ last.arg.qos = 1 /\ last.arg.dir = dimq_md_out
  /\ config.max_inflight_bytes > 0
  /\ config.max_queued_messages = 0 /\ config.max_queued_bytes = 0
  /\ ctx[last.c].msgs_out.msg_bytes12 >= config.max_inflight_bytes
  /\ last.arg.result = FALSE

\* C28: after message_release_incoming has removed the inbound inflight entry
\* of the given mid, no QoS 2 message waits in the inbound queue while fewer
\* than inflight_maximum inbound entries are inflight: the call has promoted
\* the waiting QoS 2 messages as far as the window allows.
C28_ReleasePromotesWaiting ==
  \A c \in Contexts :
     (/\ last.op = "pubrel" /\ last.c = c /\ last.rc = dimq_ERR.SUCCESS
      /\ Len(ctx[c].msgs_in.inflight) < ctx[c].msgs_in.inflight_maximum) =>
        \A i \in 1..Len(ctx[c].msgs_in.queued) : ctx[c].msgs_in.queued[i].qos # 2

\* The step runs the inflight drains outside a CONNECT: the full drain of one
\* session, or the drain of the latest entries after each insert of a publish.
DrainStep == last'.op \in {"write_inflight_out_all", "publish"}

\* An outbound QoS >= 1 entry that has been sent and waits for the first
\* acknowledgement of the peer.
AwaitsAck(m) ==
  \/ m.qos = 1 /\ m.state = dimq_ms.wait_for_puback
  \/ m.qos = 2 /\ m.state = dimq_ms.wait_for_pubrec

Expired(m) ==
  store[m.store].message_expiry_time # 0 /\ now > store[m.store].message_expiry_time

\* C30 (as stated): an outbound QoS >= 1 entry that waits for PUBACK or PUBREC
\* carries dup, and a step that runs the inflight drains emits no PUBLISH for
\* it and leaves the entry as it is in the inflight list.
C30_SentOnceAndLeftAlone ==
  [][\A c \in Contexts :
       \A i \in 1..Len(ctx[c].msgs_out.inflight) :
          LET m == ctx[c].msgs_out.inflight[i]
          IN (DrainStep /\ AwaitsAck(m)) =>
               /\ m.dup = TRUE
               /\ ~Emitted(last'.out, "PUBLISH", c, m.mid)
               /\ \E j \in 1..Len(ctx'[c].msgs_out.inflight) :
                     ctx'[c].msgs_out.inflight[j] = m]_vars

\* C30 (amended): an outbound QoS >= 1 entry that waits for PUBACK or PUBREC
\* carries dup, and a step that runs the inflight drains emits no PUBLISH for
\* it; the step leaves the entry as it is unless the message has expired and
\* the session is active with a socket, and then the step removes the entry.
C30_SentOnceAndLeftUntilExpiry ==
  [][\A c \in Contexts :
       \A i \in 1..Len(ctx[c].msgs_out.inflight) :
          LET m == ctx[c].msgs_out.inflight[i]
          IN (DrainStep /\ AwaitsAck(m)) =>
               /\ m.dup = TRUE
               /\ ~Emitted(last'.out, "PUBLISH", c, m.mid)
               /\ (\E j \in 1..Len(ctx'[c].msgs_out.inflight) :
                      ctx'[c].msgs_out.inflight[j] = m)
                    \/ (/\ Expired(m) /\ ctx[c].sock /\ ctx[c].state = dimq_cs.active
                        /\ ~HasMid(ctx'[c].msgs_out.inflight, m.mid))]_vars

\* A full drain has run on an active session and has emitted no PUBLISH for
\* an entry that waits for PUBACK or PUBREC with dup set.
C30_Witness ==
  /\ last.op = "write_inflight_out_all" /\ last.c \in Contexts
  /\ ctx[last.c].sock /\ ctx[last.c].state = dimq_cs.active
  /\ \E i \in 1..Len(ctx[last.c].msgs_out.inflight) :
        LET m == ctx[last.c].msgs_out.inflight[i]
        IN /\ AwaitsAck(m) /\ m.dup = TRUE
           /\ \E k \in 1..Len(last.sends) :
                 last.sends[k].mid = m.mid /\ last.sends[k].emitted = 0
           /\ ~Emitted(last.out, "PUBLISH", last.c, m.mid)

\* The session of context c is active on a connection and holds a message in
\* its outbound queued list while fewer than inflight_maximum messages are
\* inflight.
WaitsQueued(c) ==
  /\ ctx[c].allocated /\ ctx[c].sock /\ ctx[c].state = dimq_cs.active
  /\ ctx[c].msgs_out.queued # <<>>
  /\ Len(ctx[c].msgs_out.inflight) < ctx[c].msgs_out.inflight_maximum

\* The client owes an acknowledgement for an inflight entry, or an inflight
\* entry waits for a drain to send it.
InflightPending(c) ==
  \E i \in 1..Len(ctx[c].msgs_out.inflight) :
     ctx[c].msgs_out.inflight[i].state \in
       {dimq_ms.publish_qos0, dimq_ms.publish_qos1, dimq_ms.publish_qos2,
        dimq_ms.wait_for_puback, dimq_ms.wait_for_pubrec, dimq_ms.wait_for_pubcomp,
        dimq_ms.resend_pubrel}

\* C29: on an active, connected session a queued outbound message is never
\* stranded: while fewer than inflight_maximum messages are inflight, either
\* the drain of the queued list promotes a message, or an inflight entry is
\* still to be sent or to be acknowledged by the client, whose answer runs
\* the promotion.
C29_QueuedIsNotStranded ==
  \A c \in Contexts :
     WaitsQueued(c) =>
       \/ InflightPending(c)
       \/ db__message_write_queued_out(World, c).ctx[c].msgs_out.queued
             # ctx[c].msgs_out.queued

\* C40: the matcher returns true only for filters that the subscribe-filter
\* check accepts: for a filter the check rejects and a non-empty topic the
\* matcher answers with the invalid-input code or with false.
C40_MatchOnlyForAcceptedFilters ==
  (Matching /\ dimq_sub_topic_check(last.arg.sub) # dimq_ERR.SUCCESS) =>
    ~(last.rc = dimq_ERR.SUCCESS /\ last.arg.result = TRUE)

\* The latest step is a call of ready_for_flight for qos 0 that neither of
\* the two unlimited shortcuts answers.
LimitedFlightQos0 ==
  /\ last.op = "ready_for_flight" /\ last.arg.qos = 0
  /\ ~(MsgData(World, last.c, last.arg.dir).inflight_maximum = 0
       /\ config.max_inflight_bytes = 0)
  /\ ~(config.max_queued_messages = 0 /\ config.max_inflight_bytes = 0)

\* The two conditions of the qos 0 admission in world w, each disabled by a
\* zero limit.
Qos0Conditions(w, c, dir) ==
  LET md == MsgData(w, c, dir)
  IN /\ \/ config.max_queued_bytes = 0
        \/ md.msg_bytes - config.max_inflight_bytes < config.max_queued_bytes
     /\ \/ config.max_queued_messages = 0
        \/ IF dir = dimq_md_out
           THEN w.ctx[c].out_packet_count < config.max_queued_messages
           ELSE md.msg_count - md.inflight_maximum < config.max_queued_messages

\* C33: for qos 0, when the unlimited shortcuts do not apply, the answer of
\* ready_for_flight is the conjunction of the byte condition and the count
\* condition, each of them disabled by a zero limit, for every length of the
\* packet queue and every message count; it is true when both limits are zero.
C33_ZeroLimitDisablesItsHalf ==
  LimitedFlightQos0 =>
    /\ last.arg.result = Qos0Conditions(World, last.c, last.arg.dir)
    /\ \A a \in [packets : 0..2, quota : 0..2, count : 0..2, count12 : 0..2] :
          db__ready_for_flight(OtherCounts(last.c, last.arg.dir, a), last.c, last.arg.dir, 0)
            = Qos0Conditions(OtherCounts(last.c, last.arg.dir, a), last.c, last.arg.dir)

\* C34: ready_for_queue answers false for qos 0 when queue_qos0_messages is
\* disabled, whatever the two queue limits are and whether or not the session
\* has a socket.
C34_Qos0IsNotQueuedWhenDisabled ==
  (/\ last.op = "ready_for_queue" /\ last.arg.qos = 0
   /\ config.queue_qos0_messages = FALSE) =>
     last.arg.result = FALSE

\* The message_insert step on context c is an inbound insert with qos below 2.
InboundLowQosInsert(c) ==
  InsertStep(c) /\ last'.arg.dir = dimq_md_in /\ last'.arg.qos < 2

\* C39 (as stated): message_insert with direction in and qos below 2 leaves
\* both inbound lists, the inbound counters and the stores as they are,
\* whether or not the session has a socket and whatever the admission
\* functions answer.
C39_InboundLowQosAddsNothing ==
  [][\A c \in Contexts :
       InboundLowQosInsert(c) =>
         /\ ctx'[c].msgs_in = ctx[c].msgs_in
         /\ store' = store]_vars

\* C39 (amended): message_insert with direction in and qos below 2 on a
\* session that has a socket and is ready for flight returns 1 and leaves both
\* inbound lists, the inbound counters and the stores as they are.
C39_InboundLowQosAddsNothingInFlight ==
  [][\A c \in Contexts :
       (/\ InboundLowQosInsert(c) /\ ctx[c].sock
        /\ db__ready_for_flight(World, c, dimq_md_in, last'.arg.qos)) =>
          /\ last'.rc = RC_INBOUND_LOWQOS
          /\ ctx'[c].msgs_in = ctx[c].msgs_in
          /\ store' = store]_vars

\* An inbound insert with qos 1 on a session with a socket has returned 1 and
\* the session holds no inbound message.
C39_Witness ==
  /\ last.op = "insert" /\ last.c \in Contexts
  /\ last.arg.dir = dimq_md_in /\ last.arg.qos = 1
  /\ ctx[last.c].sock /\ last.rc = RC_INBOUND_LOWQOS
  /\ ctx[last.c].msgs_in.inflight = <<>> /\ ctx[last.c].msgs_in.queued = <<>>
  /\ ctx[last.c].msgs_in.msg_count = 0


\* The QoS levels an outbound state belongs to: the publish and wait states
\* of each handshake; queued and the remaining states fit every level.
StateQos(s) ==
  IF s = dimq_ms.publish_qos0 THEN {0}
  ELSE IF s \in {dimq_ms.publish_qos1, dimq_ms.wait_for_puback} THEN {1}
  ELSE IF s \in {dimq_ms.publish_qos2, dimq_ms.wait_for_pubrec,
                 dimq_ms.wait_for_pubcomp, dimq_ms.resend_pubrel} THEN {2}
  ELSE {0, 1, 2}

\* The outbound entries of context c, inflight first.
OutSeq(c) == ctx[c].msgs_out.inflight \o ctx[c].msgs_out.queued

\* C37: after every operation the state of every outbound client message
\* belongs to the handshake of the message's own qos field, also when
\* message_insert has capped that field at the session's max_qos.
C37_OutboundStateMatchesQos ==
  \A c \in Contexts : \A i \in 1..Len(OutSeq(c)) :
    OutSeq(c)[i].qos \in StateQos(OutSeq(c)[i].state)


\* Outbound promotion on reconnect: two connections of one client, whose
\* session is given QoS 0 and QoS 1 messages online and offline and is taken
\* over by the next connection, with a window of one message and every
\* combination of the two queue limits, QoS 0 messages being queued.
InitPromote ==
  /\ InitAdmit
  /\ config.max_inflight_messages = 1 /\ config.max_inflight_bytes = 0
  /\ config.queue_qos0_messages

NextPromote ==
  \/ \E c \in 1..2 : Accept(c)
  \/ \E c \in 1..2 : Connect(c, ConnectFlow)
  \/ \E c \in 1..2, s \in Stores, qos \in 0..1 :
        MessageInsert(c, s, dimq_md_out, qos, DestRetained)
  \/ \E c \in 1..2 : Disconnect(c)
  \/ \E c \in 1..2 : Cleanup(c)

SpecPromote == InitPromote /\ [][NextPromote]_vars

\* C35: after every operation every entry of a queued list is in state
\* queued and no entry of an inflight list is; a promotion gives the new
\* state to the entry it moves into the inflight list.
C35_QueuedStateMatchesList ==
  \A c \in Contexts :
    /\ \A i \in 1..Len(ctx[c].msgs_out.queued) : ctx[c].msgs_out.queued[i].state = dimq_ms.queued
    /\ \A i \in 1..Len(ctx[c].msgs_in.queued) : ctx[c].msgs_in.queued[i].state = dimq_ms.queued
    /\ \A i \in 1..Len(ctx[c].msgs_out.inflight) : ctx[c].msgs_out.inflight[i].state # dimq_ms.queued
    /\ \A i \in 1..Len(ctx[c].msgs_in.inflight) : ctx[c].msgs_in.inflight[i].state # dimq_ms.queued


\* C38: every entry of an inbound inflight list is a QoS 2 message in state
\* wait_for_pubrel (or send_pubrec while its PUBREC is sent), and no inbound
\* entry, inflight or queued, is in one of the outbound publish states.
C38_InboundInflightAwaitsPubrel ==
  \A c \in Contexts :
    /\ \A i \in 1..Len(ctx[c].msgs_in.inflight) :
         /\ ctx[c].msgs_in.inflight[i].qos = 2
         /\ ctx[c].msgs_in.inflight[i].state \in {dimq_ms.wait_for_pubrel, dimq_ms.send_pubrec}
    /\ \A i \in 1..Len(ctx[c].msgs_in.queued) :
         ~IsPublishState(ctx[c].msgs_in.queued[i].state)


\* The CONNECT step of context c succeeds and finds the session of context f
\* registered under its client id.
TakeoverStep(c, f) ==
  /\ last'.op = "connect" /\ last'.c = c /\ last'.rc = dimq_ERR.SUCCESS
  /\ f \in by_id /\ f # c /\ ctx[f].id = ctx'[c].id

\* The ACL checker denies the user of context c, after the step, the access
\* that entry m needs: read for an outbound message, write for an inbound one.
DeniedAfter(m, c, topic) ==
  dimq_acl_check([ctx |-> ctx'], c, topic,
                 IF m.direction = dimq_md_out THEN dimq_ACL_READ ELSE dimq_ACL_WRITE)
    # dimq_ERR.SUCCESS

\* C31: after a successful CONNECT that took a session over, no entry of the
\* four lists of the new session is a message the ACL checker denies to the
\* new identity, and the reference of every removed message is released:
\* each stored message is referenced as often as its ref_count says.
C31_TakeoverPurgesDenied ==
  [][\A c \in Contexts, f \in Contexts :
       TakeoverStep(c, f) =>
         /\ \A i \in 1..Len(AllEntries(ctx'[c])) :
              ~DeniedAfter(AllEntries(ctx'[c])[i], c, store'[AllEntries(ctx'[c])[i].store].topic)
         /\ \A s \in Stores : (store[s].live => store[s].ref_count = Refs(s))']_vars

\* C31 witness: user u2 has taken over a session with continuation, the
\* CONNECT was accepted, and no list of the new session holds a message on
\* topic t2 although the outbound counters still count one: the purge has
\* removed it.
C31_Witness ==
  /\ last.op = "connect" /\ last.rc = dimq_ERR.SUCCESS
  /\ last.arg.packet.username = "u2"
  /\ \E k \in 1..Len(last.out) : last.out[k].type = "CONNACK" /\ last.out[k].ack = 1
  /\ \A i \in 1..Len(AllEntries(ctx[last.c])) :
       store[AllEntries(ctx[last.c])[i].store].topic # "t2"
  /\ ctx[last.c].msgs_out.msg_count > OutLen(ctx[last.c])


\* Entry m is in list l, whatever state and dup flag it has there.
Holds(l, m) ==
  \E k \in 1..Len(l) : l[k].store = m.store /\ l[k].mid = m.mid /\ l[k].direction = m.direction

\* The four lists of a session are empty and its eight counters are zero.
Emptied(cx) ==
  /\ AllEntries(cx) = <<>>
  /\ \A md \in {cx.msgs_in, cx.msgs_out} :
       md.msg_count = 0 /\ md.msg_bytes = 0 /\ md.msg_count12 = 0 /\ md.msg_bytes12 = 0

\* C36: after a takeover that continues the session, the old session's four
\* lists are empty and its counters zero; every client message of the old
\* session is in the lists of the same direction of the new session or has
\* been released, and every stored message is referenced exactly as often as
\* its ref_count says, so that nothing is left to release a second time.
C36_TakeoverMovesEveryMessage ==
  [][\A c \in Contexts, f \in Contexts :
       (TakeoverStep(c, f) /\ ContinuedTakeover(c, f)) =>
         /\ Emptied(ctx'[f])
         /\ \A i \in 1..Len(AllEntries(ctx[f])) :
              \/ Holds(AllEntries(ctx'[c]), AllEntries(ctx[f])[i])
              \/ store'[AllEntries(ctx[f])[i].store].ref_count < store[AllEntries(ctx[f])[i].store].ref_count
              \/ ~store'[AllEntries(ctx[f])[i].store].live
         /\ \A s \in Stores : (store[s].live => store[s].ref_count = Refs(s))']_vars


\* Takeovers between connections with and without a will: MQTT 5 sessions
\* that expire at once or later, MQTT 3.1.1 sessions clean and persistent.
NextWill ==
  \/ \E c \in Contexts : Accept(c)
  \/ \E c \in Contexts,
        p \in {ConnectV311, ConnectV5, ConnectClean,
               [ConnectV5 EXCEPT !.session_expiry_interval = 0],
               [ConnectV311 EXCEPT !.will = TRUE]} : Connect(c, p)
  \/ \E s \in Stores, dests \in DestSeqs(by_id) : Publish(s, dests)
  \/ \E c \in Contexts : Disconnect(c)
  \/ \E c \in Contexts : Cleanup(c)

SpecWill == Init /\ [][NextWill]_vars

\* The number of wills of context f among the packets of out.
RECURSIVE WillsOf(_, _)
WillsOf(out, f) ==
  IF out = <<>> THEN 0
  ELSE WillsOf(Tail(out), f) + (IF Head(out).type = "WILL" /\ Head(out).c = f THEN 1 ELSE 0)

\* The condition under which a takeover of session f by context c delivers
\* the will of f at once.
WillDue(c, f) ==
  \/ ctx[f].protocol = dimq_p.mqtt5 /\ ctx[f].session_expiry_interval = 0
  \/ ctx[f].protocol # dimq_p.mqtt5 /\ ctx[f].clean_start = TRUE
  \/ ctx'[c].clean_start = TRUE

====
